---- MODULE Spec2Model ----
(***************************************************************************)
(* Transaction domain engine of the banking demo front-end:                *)
(* TransactionService (validation, derived balance and daily aggregates,   *)
(* creation, single-level undo, maturation of scheduled transactions,      *)
(* draft slot), DataLoaderService (the ledger cache) and                   *)
(* CustomerStateService (the selected customer / account context).         *)
(*                                                                         *)
(* Modelling conventions                                                   *)
(*  - Amounts are JavaScript numbers in the source; they are integers      *)
(*    here (whole currency units).                                         *)
(*  - A date string is an integer that keeps the lexicographic order of    *)
(*    ISO strings: the date-only string of day d is 2*d, a string of the   *)
(*    same day that carries a time-of-day part is 2*d+1                    *)
(*    ("2026-11-04" < "2026-11-04T10:00" < "2026-11-05").                  *)
(*  - `today` is the calendar day of the wall clock, i.e. the value of     *)
(*    new Date().toISOString().split('T')[0].                              *)
(*  - Angular computed() signals whose body reads the clock are memoised:  *)
(*    the cached value is recomputed only after one of the signals it read *)
(*    has changed.  todayDebitTotalMemo / todayTransactionCountMemo hold   *)
(*    the cache of the two such signals.                                   *)
(*  - description, createdAt and reference of a Transaction are cosmetic   *)
(*    and are not part of the record.                                      *)
(***************************************************************************)
EXTENDS Integers, Sequences, FiniteSets, TLC

\* ------------------------------------------------------------------ bounds
MaxCreated == 1      \* records the ledger holds beyond the loaded ones
MaxDay == 2          \* last calendar day the clock reaches
MaxInSuccession == 2 \* records created one after another in LifecycleSpec
MaxLedger == 1       \* records a loaded ledger holds beyond a base ledger in AnalyticsSpec

\* ------------------------------------------------------- program constants
DAILY_DEBIT_LIMIT == 20000
MAX_TRANSACTIONS_PER_DAY == 10
CREDIT_ONLY_CATEGORIES == {"income", "refund", "deposit"}
DEBIT_ONLY_CATEGORIES == {"fees", "withdrawal", "payment"}

\* -------------------------------------------------------------- date strings
IsoDate(d) == 2 * d
\* a date string of the same day that goes on with a time of day, as
\* new Date().toISOString() gives: it starts with the date-only string and
\* sorts after it
IsoDateTime(d) == 2 * d + 1
DayOf(date) == date \div 2
\* String.prototype.startsWith(today) for a date-only `today`
StartsWith(date, prefix) == DayOf(date) = DayOf(prefix)
\* new Date(s) followed by setHours(0, 0, 0, 0): the calendar day, time zeroed
MidnightOf(date) == DayOf(date)

\* ------------------------------------------------------------- static data
NoId == "none"

NoAccount ==
  [id |-> NoId, customerId |-> NoId, status |-> "none", currency |-> "none",
   openingDate |-> IsoDate(0), openingBalance |-> 0]

SeedAccounts ==
  { [id |-> "a1", customerId |-> "c1", status |-> "active", currency |-> "EGP",
     openingDate |-> IsoDate(1), openingBalance |-> 1000],
    [id |-> "a2", customerId |-> "c1", status |-> "frozen", currency |-> "USD",
     openingDate |-> IsoDate(1), openingBalance |-> 500],
    [id |-> "a3", customerId |-> "c2", status |-> "inactive", currency |-> "EUR",
     openingDate |-> IsoDate(1), openingBalance |-> 0] }

CustomerIds == {"c1", "c2"}
AccountIds == {a.id : a \in SeedAccounts}

Txn(id, accountId, type, category, amount, currency, date, status) ==
  [id |-> id, accountId |-> accountId, type |-> type, category |-> category,
   amount |-> amount, currency |-> currency, date |-> date, status |-> status]

NoTransaction == Txn(0, NoId, "none", "none", 0, "none", IsoDate(0), "none")

\* transactions.json: account a1 has ten completed records dated day 1 (eight
\* credits of 100, debits of 19500 and 500) and a debit of 19500 scheduled
\* for day 2; a2 has a credit scheduled for day 2; a3 has one completed credit.
SeedTransactions ==
  [i \in 1..8 |-> Txn(i, "a1", "credit", "salary", 100, "EGP", IsoDate(1), "completed")]
  \o << Txn(9, "a1", "debit", "payment", 19500, "EGP", IsoDate(1), "completed"),
        Txn(10, "a1", "debit", "withdrawal", 500, "EGP", IsoDate(1), "completed"),
        Txn(11, "a1", "debit", "transfer", 19500, "EGP", IsoDate(2), "scheduled"),
        Txn(12, "a2", "credit", "deposit", 300, "USD", IsoDate(2), "scheduled"),
        Txn(13, "a3", "credit", "salary", 700, "EUR", IsoDate(1), "completed") >>

\* ------------------------------------------------------------------ inputs
Types == {"credit", "debit"}
Categories == {"income", "fees"}
Amounts == {0, 500}
\* the day before the accounts were opened, the opening day (the first day of
\* the clock) and the day after it
DateInputs == {IsoDate(0), IsoDate(1), IsoDate(2)}

NoDraft == [accountId |-> NoId, type |-> "none", amount |-> 0, savedAt |-> 0]
DraftInputs == {[accountId |-> "a1", type |-> "debit", amount |-> 500]}

VARIABLES
  transactions,              \* DataLoaderService._transactions (the ledger)
  accounts,                  \* DataLoaderService._accounts
  isLoading, isLoaded,       \* DataLoaderService loading state
  pendingLoads,              \* loads whose requests are in flight
  selectedCustomerId,        \* CustomerStateService._selectedCustomerId
  selectedAccountId,         \* CustomerStateService._selectedAccountId
  lastTransaction, canUndo,  \* TransactionService undo slot
  hasDraft,                  \* TransactionService._hasDraft
  localDraft,                \* localStorage entry banking_app_transaction_draft
  today,                     \* calendar day of the wall clock
  todayDebitTotalMemo,       \* cache of computed todayDebitTotal
  todayTransactionCountMemo, \* cache of computed todayTransactionCount
  lastOp,                    \* what the call of createTransaction, undoLastTransaction or
                             \* processScheduledTransactions returned, or the saveDraft /
                             \* clearDraft call made, when the last step was one
  form,                      \* the CreateTransactionComponent instance, if one exists
  spendingTrendMemo,         \* cache of computed AnalyticsService.spendingTrend
  timezone,                  \* whether local time is behind UTC, or UTC and ahead
  currentUser,               \* AuthService._currentUser (its role)
  isAuthenticated,           \* AuthService._isAuthenticated
  authToken,                 \* sessionStorage entry banking_app_auth_token
  inactivityTimer,           \* time left on the pending setTimeout, if any
  sinceActivity,             \* time since the login or the last activity event
  url,                       \* the route the router has activated
  transactionsRoutes         \* the TRANSACTIONS_ROUTES table the application is built with

sessionVars == <<currentUser, isAuthenticated, authToken, inactivityTimer,
                 sinceActivity, url, transactionsRoutes>>

vars == <<transactions, accounts, isLoading, isLoaded, pendingLoads, selectedCustomerId,
          selectedAccountId, lastTransaction, canUndo, hasDraft, localDraft,
          today, todayDebitTotalMemo, todayTransactionCountMemo, lastOp,
          form, spendingTrendMemo, timezone, sessionVars>>

\* ------------------------------------------------- CustomerStateService views
customerAccounts ==
  IF selectedCustomerId = NoId THEN {}
  ELSE {a \in accounts : a.customerId = selectedCustomerId}

selectedAccount ==
  IF selectedAccountId = NoId THEN NoAccount
  ELSE IF \E a \in customerAccounts : a.id = selectedAccountId
       THEN CHOOSE a \in customerAccounts : a.id = selectedAccountId
       ELSE NoAccount

\* ---------------------------------------------------- TransactionService views
\* Array.prototype.sort with (a, b) => date(b) - date(a): stable, newest first
RECURSIVE InsertByDateDesc(_, _)
InsertByDateDesc(sorted, t) ==
  IF sorted = <<>> THEN <<t>>
  ELSE IF MidnightOf(Head(sorted).date) >= MidnightOf(t.date)
       THEN <<Head(sorted)>> \o InsertByDateDesc(Tail(sorted), t)
       ELSE <<t>> \o sorted

RECURSIVE SortByDateDesc(_)
SortByDateDesc(txns) ==
  IF txns = <<>> THEN <<>>
  ELSE InsertByDateDesc(SortByDateDesc(SubSeq(txns, 1, Len(txns) - 1)), txns[Len(txns)])

\* accountTransactions without the filter on the selected account
accountTransactionsOfAllAccounts ==
  IF selectedAccountId = NoId THEN <<>>
  ELSE SortByDateDesc(transactions)

accountTransactions ==
  IF selectedAccountId = NoId THEN <<>>
  ELSE SortByDateDesc(SelectSeq(transactions, LAMBDA t : t.accountId = selectedAccountId))

completedTransactions ==
  SelectSeq(accountTransactions, LAMBDA t : t.status = "completed")

\* scheduledTransactions without the filter on the status
scheduledOrCompletedTransactions == accountTransactions

scheduledTransactions ==
  SelectSeq(accountTransactions, LAMBDA t : t.status = "scheduled")

RECURSIVE calculateBalanceFrom(_, _)
calculateBalanceFrom(balance, txns) ==
  IF txns = <<>> THEN balance
  ELSE LET txn == Head(txns) IN
       calculateBalanceFrom(
         IF txn.status # "completed" THEN balance
         ELSE IF txn.type = "credit" THEN balance + txn.amount
         ELSE balance - txn.amount,
         Tail(txns))

calculateBalance(account, txns) == calculateBalanceFrom(account.openingBalance, txns)

\* accountBalance that counts scheduled records too
accountBalanceCountingScheduled ==
  IF selectedAccount = NoAccount THEN 0
  ELSE calculateBalance(selectedAccount,
                        [i \in DOMAIN accountTransactions |->
                           [accountTransactions[i] EXCEPT !.status = "completed"]])

accountBalance ==
  IF selectedAccount = NoAccount THEN 0
  ELSE calculateBalance(selectedAccount, completedTransactions)

RECURSIVE SumAmounts(_)
SumAmounts(txns) ==
  IF txns = <<>> THEN 0 ELSE Head(txns).amount + SumAmounts(Tail(txns))

\* body of computed todayDebitTotal, evaluated now
todayDebitTotalCompute ==
  IF selectedAccountId = NoId THEN 0
  ELSE SumAmounts(SelectSeq(completedTransactions,
         LAMBDA t : t.type = "debit" /\ StartsWith(t.date, IsoDate(today))))

\* body of computed todayTransactionCount, evaluated now
todayTransactionCountCompute ==
  IF selectedAccountId = NoId THEN 0
  ELSE Len(SelectSeq(completedTransactions,
         LAMBDA t : StartsWith(t.date, IsoDate(today))))

\* a read of a memoised signal: the cached value unless a dependency changed
Dirty == [valid |-> FALSE, val |-> 0]
Cached(v) == [valid |-> TRUE, val |-> v]

todayDebitTotal ==
  IF todayDebitTotalMemo.valid THEN todayDebitTotalMemo.val ELSE todayDebitTotalCompute

Max(a, b) == IF a >= b THEN a ELSE b

remainingDailyLimit == Max(0, DAILY_DEBIT_LIMIT - todayDebitTotal)

todayTransactionCount ==
  IF todayTransactionCountMemo.valid THEN todayTransactionCountMemo.val
  ELSE todayTransactionCountCompute

\* ------------------------------------------------------------ Rule Validator
\* a TransactionValidationError: its code, the field it is attributed to and,
\* for DAILY_LIMIT_EXCEEDED, the remaining allowance its message states
Err(code, field, remaining) == [code |-> code, field |-> field, remaining |-> remaining]

\* accountErrors without the early return for an inactive account
accountErrorsNullOnly(account) ==
  IF account = NoAccount THEN <<Err("NO_ACCOUNT", "none", -1)>> ELSE <<>>

\* the checks on the account that return at once with a single error
accountErrors(account) ==
  IF account = NoAccount THEN <<Err("NO_ACCOUNT", "none", -1)>>
  ELSE IF account.status = "inactive" THEN <<Err("ACCOUNT_INACTIVE", "none", -1)>>
  ELSE <<>>

\* frozenErrors that blocks both directions
frozenErrorsAnyType(type, account) ==
  IF account.status = "frozen"
  THEN <<Err("ACCOUNT_FROZEN", "none", -1)>> ELSE <<>>

frozenErrors(type, account) ==
  IF account.status = "frozen" /\ type = "debit"
  THEN <<Err("ACCOUNT_FROZEN", "none", -1)>> ELSE <<>>

amountErrors(amount) ==
  IF amount <= 0 THEN <<Err("INVALID_AMOUNT", "amount", -1)>> ELSE <<>>

dateErrors(date, account) ==
  IF MidnightOf(date) < MidnightOf(account.openingDate)
  THEN <<Err("DATE_BEFORE_OPENING", "date", -1)>> ELSE <<>>

categoryErrors(type, category) ==
  (IF type = "credit" /\ category \in DEBIT_ONLY_CATEGORIES
   THEN <<Err("INVALID_CATEGORY", "category", -1)>> ELSE <<>>)
  \o
  (IF type = "debit" /\ category \in CREDIT_ONLY_CATEGORIES
   THEN <<Err("INVALID_CATEGORY", "category", -1)>> ELSE <<>>)

\* isToday that also takes every earlier date for today
isTodayOrEarlier(date) == date <= IsoDate(today)

\* const isToday = date === today
isToday(date) == date = IsoDate(today)

\* dailyLimitErrors that compares the total before the new debit
dailyLimitErrorsBeforeAmount(amount, type, date) ==
  IF type = "debit" /\ isToday(date) /\ todayDebitTotal > DAILY_DEBIT_LIMIT
  THEN <<Err("DAILY_LIMIT_EXCEEDED", "amount", remainingDailyLimit)>> ELSE <<>>

dailyLimitErrors(amount, type, date) ==
  IF type = "debit" /\ isToday(date) /\ todayDebitTotal + amount > DAILY_DEBIT_LIMIT
  THEN <<Err("DAILY_LIMIT_EXCEEDED", "amount", remainingDailyLimit)>> ELSE <<>>

maxTransactionsErrors(date) ==
  IF isToday(date) /\ todayTransactionCount >= MAX_TRANSACTIONS_PER_DAY
  THEN <<Err("MAX_TRANSACTIONS_EXCEEDED", "none", -1)>> ELSE <<>>

validateTransaction(amount, type, category, date, account) ==
  IF accountErrors(account) # <<>> THEN accountErrors(account)
  ELSE frozenErrors(type, account)
       \o amountErrors(amount)
       \o dateErrors(date, account)
       \o categoryErrors(type, category)
       \o dailyLimitErrors(amount, type, date)
       \o maxTransactionsErrors(date)

\* which memoised signals a validateTransaction call reads
readsTodayDebitTotal(type, date, account) ==
  accountErrors(account) = <<>> /\ type = "debit" /\ isToday(date)

readsTodayTransactionCount(date, account) ==
  accountErrors(account) = <<>> /\ isToday(date)

Codes(errors) == [i \in DOMAIN errors |-> errors[i].code]

\* ------------------------------------------------------------------- results
Result(op, ok, errors, txnId, count) ==
  [op |-> op, ok |-> ok, errors |-> errors, txnId |-> txnId, count |-> count]

\* what the ledger and the derived signals show to a caller that reads them
Views ==
  [transactions |-> transactions,
   accountBalance |-> accountBalance,
   todayDebitTotal |-> todayDebitTotal,
   remainingDailyLimit |-> remainingDailyLimit,
   todayTransactionCount |-> todayTransactionCount]

\* the result of a call together with what its caller saw just before it
Seen(result) == result @@ [seen |-> Views]

\* the result of an undo that directly follows the creation it reverts keeps
\* what the caller saw before that creation
Reverting(result) ==
  IF lastOp.op = "createTransaction" /\ lastOp.ok /\ lastOp.txnId = result.txnId
  THEN result @@ [seen |-> lastOp.seen]
  ELSE result

\* saveDraft returns nothing; the call is kept with the draft it was given
Saved(draft) == Result("saveDraft", TRUE, <<>>, 0, 0) @@ [draft |-> draft]

\* lastOp after a step that is no call of the TransactionService
NoResult == Result("none", TRUE, <<>>, 0, 0)

\* the cache of spendingTrend before its first read and after a dependency changed
DirtyTrend == [valid |-> FALSE, val |-> <<>>]

\* no CreateTransactionComponent exists
NoForm == [open |-> FALSE, isSubmitting |-> FALSE, dirty |-> FALSE,
           type |-> "credit", amount |-> 0, date |-> IsoDate(0)]

\* ------------------------------------------------------------ route tables
\* canActivate of the 'create' child route: the table of
\* features/transactions/transactions.routes.ts does not guard it, the other
\* TRANSACTIONS_ROUTES table of the repository guards it with
\* roleGuard(['admin', 'teller'])
TRANSACTIONS_ROUTES == [create |-> {}]
TRANSACTIONS_ROUTES_WithRoleGuard == [create |-> {"admin", "teller"}]

NoUser == "none"
NoToken == [sub |-> NoUser, role |-> NoUser]
NoTimer == -1

\* AuthService after construction with no token in sessionStorage
SignedOut ==
  /\ currentUser = NoUser
  /\ isAuthenticated = FALSE
  /\ authToken = NoToken
  /\ inactivityTimer = NoTimer
  /\ sinceActivity = 0
  /\ url = "/auth/login"

\* ---------------------------------------------------------------------- Init
Init ==
  /\ transactions = <<>>
  /\ accounts = {}
  /\ isLoading = FALSE
  /\ pendingLoads = 0
  /\ isLoaded = FALSE
  /\ selectedCustomerId \in {NoId} \cup CustomerIds
  /\ selectedAccountId = NoId
  /\ lastTransaction = NoTransaction
  /\ canUndo = FALSE
  /\ localDraft \in {NoDraft} \cup {[d EXCEPT !.savedAt = 1] :
                                     d \in {[accountId |-> x.accountId, type |-> x.type,
                                             amount |-> x.amount, savedAt |-> 0] : x \in DraftInputs}}
  /\ hasDraft = (localDraft # NoDraft)
  /\ today = 1
  /\ todayDebitTotalMemo = Dirty
  /\ todayTransactionCountMemo = Dirty
  /\ lastOp = NoResult
  /\ form = NoForm
  /\ spendingTrendMemo = DirtyTrend
  /\ timezone = "UTC"
  /\ SignedOut
  /\ transactionsRoutes = TRANSACTIONS_ROUTES

\* -------------------------------------------------------- DataLoaderService
\* loadAllData that fetches whatever the loading state is
loadAllDataUnconditionally ==
  /\ isLoading' = TRUE
  /\ pendingLoads' = pendingLoads + 1
  /\ UNCHANGED <<form, spendingTrendMemo, timezone, sessionVars>>
  /\ lastOp' = NoResult
  /\ UNCHANGED <<transactions, accounts, isLoaded, selectedCustomerId,
                 selectedAccountId, lastTransaction, canUndo, hasDraft, localDraft,
                 today, todayDebitTotalMemo, todayTransactionCountMemo>>

\* up to the await: the call returns at once when the data is loaded or a
\* load is in progress, and starts the three requests otherwise
loadAllData ==
  /\ IF isLoaded \/ isLoading
     THEN UNCHANGED <<isLoading, pendingLoads>>
     ELSE /\ isLoading' = TRUE
          /\ pendingLoads' = pendingLoads + 1
  /\ UNCHANGED <<form, spendingTrendMemo, timezone, sessionVars>>
  /\ lastOp' = NoResult
  /\ UNCHANGED <<transactions, accounts, isLoaded, selectedCustomerId,
                 selectedAccountId, lastTransaction, canUndo, hasDraft, localDraft,
                 today, todayDebitTotalMemo, todayTransactionCountMemo>>

\* reloadAllData up to the await: isLoaded is reset, then loadAllData runs
reloadAllData ==
  /\ isLoaded' = FALSE
  /\ IF isLoading
     THEN UNCHANGED <<isLoading, pendingLoads>>
     ELSE /\ isLoading' = TRUE
          /\ pendingLoads' = pendingLoads + 1
  /\ UNCHANGED <<form, spendingTrendMemo, timezone, sessionVars>>
  /\ lastOp' = NoResult
  /\ UNCHANGED <<transactions, accounts, selectedCustomerId,
                 selectedAccountId, lastTransaction, canUndo, hasDraft, localDraft,
                 today, todayDebitTotalMemo, todayTransactionCountMemo>>

\* the three requests of Promise.all resolve
loadResolved ==
  /\ pendingLoads > 0
  /\ pendingLoads' = pendingLoads - 1
  /\ accounts' = SeedAccounts
  /\ transactions' = SeedTransactions
  /\ isLoaded' = TRUE
  /\ isLoading' = FALSE
  /\ todayDebitTotalMemo' = Dirty
  /\ todayTransactionCountMemo' = Dirty
  /\ spendingTrendMemo' = DirtyTrend
  /\ UNCHANGED <<form, timezone, sessionVars>>
  /\ lastOp' = NoResult
  /\ UNCHANGED <<selectedCustomerId, selectedAccountId, lastTransaction, canUndo,
                 hasDraft, localDraft, today>>

\* one of the requests fails
loadRejected ==
  /\ pendingLoads > 0
  /\ pendingLoads' = pendingLoads - 1
  /\ isLoading' = FALSE
  /\ UNCHANGED <<form, spendingTrendMemo, timezone, sessionVars>>
  /\ lastOp' = NoResult
  /\ UNCHANGED <<transactions, accounts, isLoaded, selectedCustomerId,
                 selectedAccountId, lastTransaction, canUndo, hasDraft, localDraft,
                 today, todayDebitTotalMemo, todayTransactionCountMemo>>

addTransaction(txns, transaction) == Append(txns, transaction)

\* updateTransaction that writes the reserved status
updateTransactionReversed(txns, id, status) ==
  [i \in DOMAIN txns |-> IF txns[i].id = id THEN [txns[i] EXCEPT !.status = "reversed"]
                         ELSE txns[i]]

updateTransaction(txns, id, status) ==
  [i \in DOMAIN txns |-> IF txns[i].id = id THEN [txns[i] EXCEPT !.status = status]
                         ELSE txns[i]]

\* removeTransaction that drops every record of the account the record is on
removeTransactionsOfSameAccount(txns, id) ==
  SelectSeq(txns, LAMBDA t : \A u \in {txns[i] : i \in DOMAIN txns} :
                               u.id = id => t.accountId # u.accountId)

removeTransaction(txns, id) == SelectSeq(txns, LAMBDA t : t.id # id)

\* ----------------------------------------------------- CustomerStateService
\* selectCustomer that keeps the selected account when the customer changes
selectCustomerKeepingAccount(customerId) ==
  /\ selectedCustomerId' = customerId
  /\ UNCHANGED <<selectedAccountId, todayDebitTotalMemo, todayTransactionCountMemo>>
  /\ spendingTrendMemo' = (IF selectedCustomerId' # selectedCustomerId
                           THEN DirtyTrend ELSE spendingTrendMemo)
  /\ UNCHANGED <<form, timezone, sessionVars>>
  /\ lastOp' = NoResult
  /\ UNCHANGED <<transactions, accounts, isLoading, isLoaded, pendingLoads, lastTransaction,
                 canUndo, hasDraft, localDraft, today>>

selectCustomer(customerId) ==
  /\ IF selectedCustomerId # customerId
     THEN /\ selectedCustomerId' = customerId
          /\ selectedAccountId' = NoId
     ELSE UNCHANGED <<selectedCustomerId, selectedAccountId>>
  /\ IF selectedAccountId' # selectedAccountId
     THEN /\ todayDebitTotalMemo' = Dirty
          /\ todayTransactionCountMemo' = Dirty
     ELSE UNCHANGED <<todayDebitTotalMemo, todayTransactionCountMemo>>
  /\ spendingTrendMemo' = (IF selectedCustomerId' # selectedCustomerId
                           THEN DirtyTrend ELSE spendingTrendMemo)
  /\ UNCHANGED <<form, timezone, sessionVars>>
  /\ lastOp' = NoResult
  /\ UNCHANGED <<transactions, accounts, isLoading, isLoaded, pendingLoads, lastTransaction,
                 canUndo, hasDraft, localDraft, today>>

selectAccount(accountId) ==
  /\ IF accountId = NoId \/ \E a \in customerAccounts : a.id = accountId
     THEN selectedAccountId' = accountId
     ELSE UNCHANGED selectedAccountId
  /\ IF selectedAccountId' # selectedAccountId
     THEN /\ todayDebitTotalMemo' = Dirty
          /\ todayTransactionCountMemo' = Dirty
     ELSE UNCHANGED <<todayDebitTotalMemo, todayTransactionCountMemo>>
  /\ UNCHANGED <<form, spendingTrendMemo, timezone, sessionVars>>
  /\ lastOp' = NoResult
  /\ UNCHANGED <<transactions, accounts, isLoading, isLoaded, pendingLoads, selectedCustomerId,
                 lastTransaction, canUndo, hasDraft, localDraft, today>>

\* ------------------------------------------------------- TransactionService
\* const isScheduled = date > today (string comparison)
\* statusFor that schedules a record dated today
statusForInclusive(date) == IF date >= IsoDate(today) THEN "scheduled" ELSE "completed"

\* const isScheduled = date > today
statusFor(date) == IF date > IsoDate(today) THEN "scheduled" ELSE "completed"

\* generateId: an identity no record of the ledger and no undo slot holds
\* (identities are opaque, so the least unused number stands for a fresh one)
generateId ==
  LET used == {transactions[i].id : i \in DOMAIN transactions} \cup {lastTransaction.id}
  IN CHOOSE id \in 1..(Len(transactions) + 2) :
       id \notin used /\ \A smaller \in 1..(id - 1) : smaller \in used

\* newTransaction that stamps one fixed currency
newTransactionFixedCurrency(type, category, amount, date, account) ==
  Txn(generateId, account.id, type, category, amount, "EGP", date, statusFor(date))

newTransaction(type, category, amount, date, account) ==
  Txn(generateId, account.id, type, category, amount, account.currency, date, statusFor(date))

\* a rejection that has already dropped the saved draft
rejectedAfterClearDraft(errors, type, date, account) ==
  /\ UNCHANGED <<spendingTrendMemo, timezone, sessionVars>>
  /\ lastOp' = Result("createTransaction", FALSE, errors, 0, 0)
  /\ localDraft' = NoDraft
  /\ hasDraft' = FALSE
  /\ todayDebitTotalMemo' =
       (IF readsTodayDebitTotal(type, date, account)
        THEN Cached(todayDebitTotal) ELSE todayDebitTotalMemo)
  /\ todayTransactionCountMemo' =
       (IF readsTodayTransactionCount(date, account)
        THEN Cached(todayTransactionCount) ELSE todayTransactionCountMemo)
  /\ UNCHANGED <<transactions, accounts, isLoading, isLoaded, pendingLoads, selectedCustomerId,
                 selectedAccountId, lastTransaction, canUndo, today>>

\* if (errors.length > 0) return { success: false, errors }: nothing is written;
\* the memoised signals the validation read now hold a value
rejected(errors, type, date, account) ==
  /\ UNCHANGED <<spendingTrendMemo, timezone, sessionVars>>
  /\ lastOp' = Result("createTransaction", FALSE, errors, 0, 0)
  /\ todayDebitTotalMemo' =
       (IF readsTodayDebitTotal(type, date, account)
        THEN Cached(todayDebitTotal) ELSE todayDebitTotalMemo)
  /\ todayTransactionCountMemo' =
       (IF readsTodayTransactionCount(date, account)
        THEN Cached(todayTransactionCount) ELSE todayTransactionCountMemo)
  /\ UNCHANGED <<transactions, accounts, isLoading, isLoaded, pendingLoads, selectedCustomerId,
                 selectedAccountId, lastTransaction, canUndo, hasDraft,
                 localDraft, today>>

\* committedWithin that fills the undo slot for a scheduled record as well
committedWithinAnyStatus(transaction, limit) ==
  /\ Len(transactions) < Len(SeedTransactions) + limit
  /\ transactions' = addTransaction(transactions, transaction)
  /\ lastTransaction' = transaction
  /\ canUndo' = TRUE
  /\ localDraft' = NoDraft
  /\ hasDraft' = FALSE
  /\ todayDebitTotalMemo' = Dirty
  /\ todayTransactionCountMemo' = Dirty
  /\ spendingTrendMemo' = DirtyTrend
  /\ UNCHANGED <<timezone, sessionVars>>
  /\ lastOp' = Seen(Result("createTransaction", TRUE, <<>>, transaction.id, 0))
  /\ UNCHANGED <<accounts, isLoading, isLoaded, pendingLoads, selectedCustomerId,
                 selectedAccountId, today>>

\* addTransaction, the undo slot for a completed record, clearDraft;
\* limit bounds the records the ledger holds beyond the loaded ones
committedWithin(transaction, limit) ==
  /\ Len(transactions) < Len(SeedTransactions) + limit
  /\ transactions' = addTransaction(transactions, transaction)
  /\ IF transaction.status = "completed"
     THEN /\ lastTransaction' = transaction
          /\ canUndo' = TRUE
     ELSE UNCHANGED <<lastTransaction, canUndo>>
  /\ localDraft' = NoDraft
  /\ hasDraft' = FALSE
  /\ todayDebitTotalMemo' = Dirty
  /\ todayTransactionCountMemo' = Dirty
  /\ spendingTrendMemo' = DirtyTrend
  /\ UNCHANGED <<timezone, sessionVars>>
  /\ lastOp' = Seen(Result("createTransaction", TRUE, <<>>, transaction.id, 0))
  /\ UNCHANGED <<accounts, isLoading, isLoaded, pendingLoads, selectedCustomerId,
                 selectedAccountId, today>>

createTransactionWithin(type, category, amount, date, limit) ==
  LET account == selectedAccount
      errors == validateTransaction(amount, type, category, date, account)
  IN
  IF Len(errors) > 0
  THEN rejected(errors, type, date, account)
  ELSE committedWithin(newTransaction(type, category, amount, date, account), limit)

createTransaction(type, category, amount, date) ==
  createTransactionWithin(type, category, amount, date, MaxCreated)

\* an undo slot that falls back to the completed record created before
clearUndoStateFallingBack ==
  LET older == SelectSeq(transactions,
                         LAMBDA t : /\ t.id # lastTransaction.id
                                    /\ t.id > Len(SeedTransactions)
                                    /\ t.status = "completed")
  IN IF older = <<>>
     THEN /\ lastTransaction' = NoTransaction
          /\ canUndo' = FALSE
     ELSE /\ lastTransaction' = older[Len(older)]
          /\ canUndo' = TRUE

\* this._lastTransaction.set(null); this._canUndo.set(false)
clearUndoState ==
  /\ lastTransaction' = NoTransaction
  /\ canUndo' = FALSE

undoLastTransaction ==
  IF lastTransaction = NoTransaction \/ ~canUndo
  THEN /\ lastOp' = Result("undoLastTransaction", FALSE, <<>>, 0, 0)
       /\ UNCHANGED <<transactions, accounts, isLoading, isLoaded, pendingLoads, selectedCustomerId,
                      selectedAccountId, lastTransaction, canUndo, hasDraft,
                      localDraft, today, todayDebitTotalMemo,
                      todayTransactionCountMemo>>
       /\ UNCHANGED <<form, spendingTrendMemo, timezone, sessionVars>>
  ELSE /\ transactions' = removeTransaction(transactions, lastTransaction.id)
       /\ clearUndoState
       /\ todayDebitTotalMemo' = Dirty
       /\ todayTransactionCountMemo' = Dirty
       /\ spendingTrendMemo' = DirtyTrend
       /\ UNCHANGED <<form, timezone, sessionVars>>
       /\ lastOp' = Reverting(Result("undoLastTransaction", TRUE, <<>>,
                                      lastTransaction.id, 0))
       /\ UNCHANGED <<accounts, isLoading, isLoaded, pendingLoads, selectedCustomerId,
                      selectedAccountId, hasDraft, localDraft, today>>

\* a call of clearUndoState()
ClearUndoStateStep ==
  /\ clearUndoState
  /\ lastOp' = Result("clearUndoState", TRUE, <<>>, 0, 0)
  /\ UNCHANGED <<transactions, accounts, isLoading, isLoaded, pendingLoads, selectedCustomerId,
                 selectedAccountId, hasDraft, localDraft, today, todayDebitTotalMemo,
                 todayTransactionCountMemo>>
  /\ UNCHANGED <<form, spendingTrendMemo, timezone, sessionVars>>

\* dueScheduled without the comparison with today
allScheduled == scheduledTransactions

\* the scheduled records of the selected account that the loop completes
dueScheduled == SelectSeq(scheduledTransactions, LAMBDA t : t.date <= IsoDate(today))

\* completeAll that leaves a debit scheduled when the day's completed debits
\* of its account would pass the daily limit
RECURSIVE completeAllWithinLimit(_, _)
completeAllWithinLimit(txns, due) ==
  IF due = <<>> THEN txns
  ELSE LET t == Head(due)
           sameDay == SelectSeq(txns, LAMBDA u : /\ u.accountId = t.accountId
                                                 /\ u.type = "debit"
                                                 /\ u.status = "completed"
                                                 /\ DayOf(u.date) = DayOf(t.date))
       IN IF t.type = "debit" /\ SumAmounts(sameDay) + t.amount > DAILY_DEBIT_LIMIT
          THEN completeAllWithinLimit(txns, Tail(due))
          ELSE completeAllWithinLimit(updateTransaction(txns, t.id, "completed"), Tail(due))

RECURSIVE completeAll(_, _)
completeAll(txns, due) ==
  IF due = <<>> THEN txns
  ELSE completeAll(updateTransaction(txns, Head(due).id, "completed"), Tail(due))

processScheduledTransactions ==
  LET processed == Len(dueScheduled) IN
  /\ transactions' = completeAll(transactions, dueScheduled)
  /\ IF processed > 0
     THEN /\ todayDebitTotalMemo' = Dirty
          /\ todayTransactionCountMemo' = Dirty
     ELSE UNCHANGED <<todayDebitTotalMemo, todayTransactionCountMemo>>
  /\ spendingTrendMemo' = (IF processed > 0 THEN DirtyTrend ELSE spendingTrendMemo)
  /\ UNCHANGED <<form, timezone, sessionVars>>
  /\ lastOp' = Result("processScheduledTransactions", TRUE, <<>>, 0, processed)
  /\ UNCHANGED <<accounts, isLoading, isLoaded, pendingLoads, selectedCustomerId,
                 selectedAccountId, lastTransaction, canUndo, hasDraft, localDraft,
                 today>>

\* JSON.stringify of a draft: a field that is undefined (accountId when no
\* account is selected) is left out of the stored text
JsonStringify(value) ==
  IF value.accountId = NoId
  THEN [type |-> value.type, amount |-> value.amount, savedAt |-> value.savedAt]
  ELSE value

\* JSON.parse of the stored text: a field that is missing reads as undefined
JsonParse(item) ==
  IF "accountId" \in DOMAIN item THEN item ELSE item @@ [accountId |-> NoId]

\* saveDraft that keeps a draft that is already stored
saveDraftIfEmpty(draft) ==
  /\ localDraft' = (IF localDraft # NoDraft THEN localDraft
                    ELSE JsonStringify([accountId |-> draft.accountId, type |-> draft.type,
                                        amount |-> draft.amount, savedAt |-> today]))
  /\ hasDraft' = TRUE
  /\ UNCHANGED <<spendingTrendMemo, timezone, sessionVars>>
  /\ lastOp' = Saved(draft)
  /\ UNCHANGED <<transactions, accounts, isLoading, isLoaded, pendingLoads, selectedCustomerId,
                 selectedAccountId, lastTransaction, canUndo, today,
                 todayDebitTotalMemo, todayTransactionCountMemo>>

saveDraft(draft) ==
  /\ localDraft' = JsonStringify([accountId |-> draft.accountId, type |-> draft.type,
                                  amount |-> draft.amount, savedAt |-> today])
  /\ hasDraft' = TRUE
  /\ UNCHANGED <<spendingTrendMemo, timezone, sessionVars>>
  /\ lastOp' = Saved(draft)
  /\ UNCHANGED <<transactions, accounts, isLoading, isLoaded, pendingLoads, selectedCustomerId,
                 selectedAccountId, lastTransaction, canUndo, today,
                 todayDebitTotalMemo, todayTransactionCountMemo>>

\* return item ? JSON.parse(item) : null
getDraft == IF localDraft = NoDraft THEN NoDraft ELSE JsonParse(localDraft)

\* clearDraft that removes the stored entry and leaves the flag
clearDraftKeepingFlag ==
  /\ localDraft' = NoDraft
  /\ UNCHANGED <<form, spendingTrendMemo, timezone, sessionVars>>
  /\ lastOp' = Result("clearDraft", TRUE, <<>>, 0, 0)
  /\ UNCHANGED <<transactions, accounts, isLoading, isLoaded, pendingLoads, selectedCustomerId,
                 selectedAccountId, lastTransaction, canUndo, hasDraft, today,
                 todayDebitTotalMemo, todayTransactionCountMemo>>

clearDraft ==
  /\ localDraft' = NoDraft
  /\ hasDraft' = FALSE
  /\ UNCHANGED <<form, spendingTrendMemo, timezone, sessionVars>>
  /\ lastOp' = Result("clearDraft", TRUE, <<>>, 0, 0)
  /\ UNCHANGED <<transactions, accounts, isLoading, isLoaded, pendingLoads, selectedCustomerId,
                 selectedAccountId, lastTransaction, canUndo, today,
                 todayDebitTotalMemo, todayTransactionCountMemo>>

\* ------------------------------------------- CreateTransactionComponent
\* a category the select of the create form offers for the type
CategoryFor(type) == IF type = "credit" THEN "income" ELSE "fees"

\* The fields type, amount and date of the form model are kept; category is
\* the one the select offers for the type, and a form whose amount is filled
\* in is taken to have its description filled in too.
serviceVars == <<transactions, accounts, isLoading, isLoaded, pendingLoads, selectedCustomerId,
                 selectedAccountId, lastTransaction, canUndo, hasDraft, localDraft,
                 today, todayDebitTotalMemo, todayTransactionCountMemo>>

\* transactionModel as the constructor sets it
NewForm == [open |-> TRUE, isSubmitting |-> FALSE, dirty |-> FALSE,
            type |-> "credit", amount |-> 0, date |-> IsoDate(today)]

\* constructor and ngOnInit: with ?resume=true loadDraft fills the model from
\* the stored draft
openForm(resume) ==
  /\ ~form.open
  /\ form' = (IF resume /\ getDraft # NoDraft
              THEN [NewForm EXCEPT !.type = getDraft.type, !.amount = getDraft.amount]
              ELSE NewForm)
  /\ lastOp' = NoResult
  /\ UNCHANGED <<serviceVars, spendingTrendMemo, timezone, sessionVars>>

\* the user fills in the fields; setType refuses to switch to debit on a
\* frozen account
editForm(type, amount, date) ==
  /\ form.open
  /\ ~(type = "debit" /\ form.type # "debit" /\ selectedAccount.status = "frozen")
  /\ form' = [form EXCEPT !.type = type, !.amount = amount, !.date = date,
                          !.dirty = TRUE]
  /\ lastOp' = NoResult
  /\ UNCHANGED <<serviceVars, spendingTrendMemo, timezone, sessionVars>>

\* the DraftTransaction the component builds from its model
formDraft == [accountId |-> selectedAccountId, type |-> form.type, amount |-> form.amount]

\* CreateTransactionComponent.saveDraft
formSaveDraft ==
  /\ form.open
  /\ saveDraft(formDraft)
  /\ UNCHANGED form

\* the destruction of a component, kept with the form as it was
Destroyed(component) ==
  Result("ngOnDestroy", TRUE, <<>>, 0, 0) @@ [form |-> component]

\* ngOnDestroy that saves the draft of a submitted form too
ngOnDestroyIgnoringSubmit ==
  /\ form.open
  /\ form' = NoForm
  /\ IF form.dirty /\ form.amount > 0
     THEN saveDraft(formDraft)
     ELSE /\ lastOp' = Destroyed(form)
          /\ UNCHANGED <<serviceVars, spendingTrendMemo, timezone, sessionVars>>

\* if (!isSubmitting() && dirty()) autoSaveDraft(), which saves when
\* amount > 0 || description
ngOnDestroy ==
  /\ form.open
  /\ form' = NoForm
  /\ IF ~form.isSubmitting /\ form.dirty /\ form.amount > 0
     THEN saveDraft(formDraft)
     ELSE /\ lastOp' = Destroyed(form)
          /\ UNCHANGED <<serviceVars, spendingTrendMemo, timezone, sessionVars>>

\* onSubmit of a valid form (an invalid one returns at once): isSubmitting
\* is set, and reset only when createTransaction fails
onSubmit ==
  /\ form.open
  /\ form.amount > 0
  /\ createTransactionWithin(form.type, CategoryFor(form.type), form.amount,
                             form.date, MaxCreated)
  /\ form' = [form EXCEPT !.isSubmitting =
                 (validateTransaction(form.amount, form.type, CategoryFor(form.type),
                                      form.date, selectedAccount) = <<>>)]

\* -------------------------------------------------------------- AuthService
\* A user is kept by its username; its role is the one DEMO_USERS gives the
\* name (the token carries the same role).  Time is counted in milliseconds
\* and passes a minute at a time.
DEMO_USERS ==
  [admin |-> [password |-> "admin123", role |-> "admin"],
   teller |-> [password |-> "teller123", role |-> "teller"],
   viewer |-> [password |-> "viewer123", role |-> "viewer"]]

Minute == 60 * 1000
INACTIVITY_TIMEOUT_MS == 15 * 60 * 1000

userRole == IF currentUser = NoUser THEN NoUser ELSE DEMO_USERS[currentUser].role

hasRole(roles, role) == role # NoUser /\ role \in roles

generateToken(user) == [sub |-> user, role |-> DEMO_USERS[user].role]

\* ------------------------------------------------------------- route guards
\* A guard lets the navigation pass or cancels it and navigates elsewhere.
Pass == [ok |-> TRUE, to |-> ""]
RedirectTo(target) == [ok |-> FALSE, to |-> target]

authGuard(authenticated) ==
  IF authenticated THEN Pass ELSE RedirectTo("/auth/login")

guestGuard(authenticated) ==
  IF ~authenticated THEN Pass ELSE RedirectTo("/customers")

roleGuard(allowedRoles, authenticated, role) ==
  IF ~authenticated THEN RedirectTo("/auth/login")
  ELSE IF hasRole(allowedRoles, role) THEN Pass
  ELSE RedirectTo("/customers")

\* app.routes.ts with the children of 'transactions': the guards of a route,
\* the parent's first
canActivate(target, authenticated, role) ==
  IF target = "/auth/login" THEN <<guestGuard(authenticated)>>
  ELSE IF target = "/transactions/create" /\ transactionsRoutes.create # {}
  THEN <<authGuard(authenticated),
         roleGuard(transactionsRoutes.create, authenticated, role)>>
  ELSE <<authGuard(authenticated)>>

\* the first guard that cancels the navigation, Pass when none does
Guarded(target, authenticated, role) ==
  LET guards == canActivate(target, authenticated, role)
      failing == {i \in DOMAIN guards : ~guards[i].ok}
  IN IF failing = {} THEN Pass
     ELSE guards[CHOOSE i \in failing : \A j \in failing : i <= j]

\* router.navigate([target]) from the route `from`: the route that is
\* activated in the end
Activated(from, target, authenticated, role) ==
  LET first == Guarded(target, authenticated, role) IN
  IF first.ok THEN target
  ELSE IF Guarded(first.to, authenticated, role).ok THEN first.to
  ELSE from

sessionFrame == UNCHANGED <<serviceVars, form, spendingTrendMemo, timezone, transactionsRoutes>>

\* stopInactivityTimer, then setTimeout(..., INACTIVITY_TIMEOUT_MS); the
\* activity listeners are attached for as long as the timer is set
startInactivityTimer ==
  /\ inactivityTimer' = INACTIVITY_TIMEOUT_MS
  /\ sinceActivity' = 0

clearAuth ==
  /\ inactivityTimer' = NoTimer
  /\ sinceActivity' = 0
  /\ currentUser' = NoUser
  /\ isAuthenticated' = FALSE
  /\ authToken' = NoToken

\* LoginComponent.onSubmit: AuthService.login, and on success
\* router.navigate(['/customers'])
login(username, password) ==
  /\ url = "/auth/login"
  /\ IF username \in DOMAIN DEMO_USERS /\ DEMO_USERS[username].password = password
     THEN /\ authToken' = generateToken(username)
          /\ currentUser' = username
          /\ isAuthenticated' = TRUE
          /\ startInactivityTimer
          /\ url' = Activated(url, "/customers", TRUE, DEMO_USERS[username].role)
          /\ lastOp' = Result("login", TRUE, <<>>, 0, 0)
     ELSE /\ UNCHANGED <<currentUser, isAuthenticated, authToken, inactivityTimer,
                         sinceActivity, url>>
          /\ lastOp' = Result("login", FALSE, <<>>, 0, 0)
  /\ sessionFrame

logout ==
  /\ clearAuth
  /\ url' = Activated(url, "/auth/login", FALSE, NoUser)
  /\ lastOp' = Result("logout", TRUE, <<>>, 0, 0)
  /\ sessionFrame

\* handleUserActivity that leaves the running timer alone
handleUserActivityKeepingTimer ==
  /\ inactivityTimer # NoTimer
  /\ sinceActivity' = 0
  /\ UNCHANGED <<inactivityTimer, currentUser, authToken, isAuthenticated, url>>
  /\ lastOp' = Result("handleUserActivity", TRUE, <<>>, 0, 0)
  /\ sessionFrame

\* a mousedown, keydown, touchstart or scroll while the listeners are attached
handleUserActivity ==
  /\ inactivityTimer # NoTimer
  /\ IF isAuthenticated THEN startInactivityTimer
     ELSE UNCHANGED <<inactivityTimer, sinceActivity>>
  /\ UNCHANGED <<currentUser, authToken, isAuthenticated, url>>
  /\ lastOp' = Result("handleUserActivity", TRUE, <<>>, 0, 0)
  /\ sessionFrame

resetInactivityTimer ==
  /\ IF isAuthenticated THEN startInactivityTimer
     ELSE UNCHANGED <<inactivityTimer, sinceActivity>>
  /\ UNCHANGED <<currentUser, authToken, isAuthenticated, url>>
  /\ lastOp' = Result("resetInactivityTimer", isAuthenticated, <<>>, 0, 0)
  /\ sessionFrame

\* a minute passes with no activity; a timer that is due fires first
timePasses ==
  /\ inactivityTimer # NoTimer
  /\ inactivityTimer >= Minute
  /\ inactivityTimer' = inactivityTimer - Minute
  /\ sinceActivity' = sinceActivity + Minute
  /\ UNCHANGED <<currentUser, authToken, isAuthenticated, url, lastOp>>
  /\ sessionFrame

\* the setTimeout callback
handleInactivityTimeout ==
  /\ inactivityTimer = 0
  /\ clearAuth
  /\ url' = Activated(url, "/auth/login", FALSE, NoUser)
  /\ lastOp' = Result("handleInactivityTimeout", TRUE, <<>>, 0, 0)
  /\ sessionFrame

\* a link, or a URL entered by hand
navigate(target) ==
  /\ url' = Activated(url, target, isAuthenticated, userRole)
  /\ UNCHANGED <<currentUser, authToken, isAuthenticated, inactivityTimer, sinceActivity>>
  /\ lastOp' = Result("navigate", url' = target, <<>>, 0, 0)
  /\ sessionFrame

\* the page is loaded again: the constructor runs initializeAuth on the token
\* sessionStorage kept, which has expired or not, and the router activates
\* the current URL
reload ==
  /\ \E expired \in BOOLEAN :
       IF authToken # NoToken /\ ~expired
       THEN /\ currentUser' = authToken.sub
            /\ isAuthenticated' = TRUE
            /\ startInactivityTimer
            /\ UNCHANGED authToken
            /\ url' = Activated("/auth/login", url, TRUE, authToken.role)
       ELSE /\ clearAuth
            /\ url' = Activated("/auth/login", url, FALSE, NoUser)
  /\ lastOp' = Result("reload", TRUE, <<>>, 0, 0)
  /\ sessionFrame

\* ---------------------------------------------------------------- calendar
\* Day 1 is 2025-10-01; FirstDays holds the first day of each month from
\* September 2025 to April 2026.  A month is counted from year 0:
\* 12 * getFullYear() + getMonth(), with January = 0.
FirstDays == <<-29, 1, 32, 62, 93, 124, 152, 183>>
September2025 == 12 * 2025 + 8

MonthOfDay(day) ==
  September2025 - 1
  + (CHOOSE i \in 1..(Len(FirstDays) - 1) : FirstDays[i] <= day /\ day < FirstDays[i + 1])

\* new Date(dateString), as the local calendar day it falls on: a date-only
\* string is midnight UTC, which is still the day before where local time
\* is behind UTC; a string with a time of day is local time
NewDate(date) ==
  IF date % 2 = 0 /\ timezone = "behind" THEN DayOf(date) - 1 ELSE DayOf(date)

getFullYear(day) == MonthOfDay(day) \div 12
getMonth(day) == MonthOfDay(day) % 12

\* Math.round(n / d) for d > 0: the nearest integer, a half rounds up
MathRound(n, d) == (2 * n + d) \div (2 * d)

\* --------------------------------------------------------- AnalyticsService
\* customerTransactions that keeps the selected account's records only
customerTransactionsOfSelectedAccount ==
  IF selectedCustomerId = NoId THEN <<>>
  ELSE SelectSeq(transactions,
                 LAMBDA t : t.accountId = selectedAccountId /\ t.status = "completed")

customerTransactions ==
  IF selectedCustomerId = NoId THEN <<>>
  ELSE LET accountIds == {a.id : a \in {b \in accounts : b.customerId = selectedCustomerId}}
       IN SelectSeq(transactions,
                    LAMBDA t : t.accountId \in accountIds /\ t.status = "completed")

debitTransactions == SelectSeq(customerTransactions, LAMBDA t : t.type = "debit")

\* body of computed spendingTrend, evaluated now. new Date() is the local
\* calendar day: the analytics are read around midday UTC, when the local
\* calendar day is the UTC one. new Date(year, month, 1) carries a month
\* outside 0..11 into the year.
spendingTrendCompute ==
  [k \in 1..3 |->
     LET i == 3 - k
         year == getFullYear(today)
         month == getMonth(today) - i
         date == [year |-> year + (month \div 12), month |-> month % 12]
         monthTransactions ==
           SelectSeq(debitTransactions,
                     LAMBDA t : /\ getFullYear(NewDate(t.date)) = date.year
                                /\ getMonth(NewDate(t.date)) = date.month)
     IN [month |-> date.month, year |-> date.year,
         total |-> SumAmounts(monthTransactions), count |-> Len(monthTransactions)]]

\* a read of the memoised spendingTrend
spendingTrend ==
  IF spendingTrendMemo.valid THEN spendingTrendMemo.val ELSE spendingTrendCompute

\* averageSpending that cuts the fraction off
averageSpendingTruncated ==
  IF Len(debitTransactions) = 0 THEN 0
  ELSE SumAmounts(debitTransactions) \div Len(debitTransactions)

averageSpending ==
  IF Len(debitTransactions) = 0 THEN 0
  ELSE MathRound(SumAmounts(debitTransactions), Len(debitTransactions))

totalSpending == SumAmounts(debitTransactions)

totalCredits == SumAmounts(SelectSeq(customerTransactions, LAMBDA t : t.type = "credit"))

\* the message of abnormalSpending: '', 'No abnormal spending detected' or
\* '<count> transaction(s) exceed 150% of average spending'
Message(kind, count) == [kind |-> kind, count |-> count]

\* abnormalSpending that also flags a debit equal to the threshold
abnormalSpendingInclusive ==
  LET debits == debitTransactions
      average == averageSpending
      abnormalTxns == SelectSeq(debits, LAMBDA t : 2 * t.amount >= 3 * average)
  IN IF average = 0 \/ Len(debits) < 3
     THEN [detected |-> FALSE, transactions |-> <<>>, message |-> Message("empty", 0)]
     ELSE IF Len(abnormalTxns) = 0
     THEN [detected |-> FALSE, transactions |-> <<>>, message |-> Message("neutral", 0)]
     ELSE [detected |-> TRUE, transactions |-> abnormalTxns,
           message |-> Message("count", Len(abnormalTxns))]

\* threshold = average * 1.5 and amount > threshold, in whole numbers
abnormalSpending ==
  LET debits == debitTransactions
      average == averageSpending
      abnormalTxns == SelectSeq(debits, LAMBDA t : 2 * t.amount > 3 * average)
  IN IF average = 0 \/ Len(debits) < 3
     THEN [detected |-> FALSE, transactions |-> <<>>, message |-> Message("empty", 0)]
     ELSE IF Len(abnormalTxns) = 0
     THEN [detected |-> FALSE, transactions |-> <<>>, message |-> Message("neutral", 0)]
     ELSE [detected |-> TRUE, transactions |-> abnormalTxns,
           message |-> Message("count", Len(abnormalTxns))]

monthOverMonthChange ==
  LET trend == spendingTrend IN
  IF Len(trend) < 2 THEN [change |-> 0, percentage |-> 0, direction |-> "stable"]
  ELSE LET current == trend[Len(trend)].total
           previous == trend[Len(trend) - 1].total
           change == current - previous
       IN IF previous = 0
          THEN [change |-> current, percentage |-> 0, direction |-> "stable"]
          ELSE [change |-> change,
                percentage |-> MathRound(change * 100, previous),
                direction |-> IF change > 0 THEN "up"
                              ELSE IF change < 0 THEN "down" ELSE "stable"]

\* what the analytics dashboard reads
Analytics ==
  [spendingTrend |-> spendingTrend,
   averageSpending |-> averageSpending,
   totalSpending |-> totalSpending,
   totalCredits |-> totalCredits,
   abnormalSpending |-> abnormalSpending,
   monthOverMonthChange |-> monthOverMonthChange]

\* the dashboard reads every signal; spendingTrend now holds a cached value
readAnalytics ==
  /\ spendingTrendMemo' = [valid |-> TRUE, val |-> spendingTrend]
  /\ lastOp' = Result("analyticsData", TRUE, <<>>, 0, 0) @@ [read |-> Analytics]
  /\ UNCHANGED <<serviceVars, form, timezone, sessionVars>>

\* -------------------------------------------------------------------- clock
\* midnight passes: the calendar day of new Date() advances
dayPassesUntil(last) ==
  /\ today < last
  /\ today' = today + 1
  /\ UNCHANGED <<form, spendingTrendMemo, timezone, sessionVars>>
  /\ lastOp' = NoResult
  /\ UNCHANGED <<transactions, accounts, isLoading, isLoaded, pendingLoads, selectedCustomerId,
                 selectedAccountId, lastTransaction, canUndo, hasDraft, localDraft,
                 todayDebitTotalMemo, todayTransactionCountMemo>>

dayPasses == dayPassesUntil(MaxDay)

\* ---------------------------------------------------------------------- Next
CreateStep ==
  \E type \in Types, category \in Categories, amount \in Amounts, date \in DateInputs :
    createTransaction(type, category, amount, date) /\ UNCHANGED form

SelectCustomerStep == \E c \in CustomerIds \cup {NoId} : selectCustomer(c)

SelectAccountStep == \E a \in AccountIds \cup {NoId} : selectAccount(a)

\* what the create form holds when a draft is saved: filled in for a1, or
\* barely touched with no account selected
SaveDraftStep ==
  \E d \in DraftInputs \cup {[accountId |-> NoId, type |-> "credit", amount |-> 0]} :
    saveDraft(d) /\ UNCHANGED form

Next ==
  \/ loadAllData
  \/ loadResolved
  \/ loadRejected
  \/ SelectCustomerStep
  \/ SelectAccountStep
  \/ CreateStep
  \/ undoLastTransaction
  \/ processScheduledTransactions
  \/ dayPasses

Spec == Init /\ [][Next]_vars

\* ------------------------------------------------------------ LifecycleSpec
\* The lifecycle of records created one after another: the create form
\* submits well-formed input (a positive amount, a category the direction
\* allows), so that more creations fit in the same bound.
SubmitStep ==
  \E type \in Types, date \in DateInputs :
    /\ createTransactionWithin(type, CategoryFor(type), 500, date, MaxInSuccession)
    /\ UNCHANGED form

LifecycleNext ==
  \/ loadAllData
  \/ loadResolved
  \/ SelectAccountStep
  \/ SubmitStep
  \/ undoLastTransaction
  \/ processScheduledTransactions
  \/ dayPasses

LifecycleSpec == Init /\ [][LifecycleNext]_vars

\* ---------------------------------------------------------------- DraftSpec
\* The draft slot next to loading, selection and the clock.
DraftNext ==
  \/ loadAllData
  \/ loadResolved
  \/ loadRejected
  \/ SelectCustomerStep
  \/ SelectAccountStep
  \/ SaveDraftStep
  \/ clearDraft
  \/ dayPasses

DraftSpec == Init /\ [][DraftNext]_vars

\* ----------------------------------------------------------------- FormSpec
\* The create form next to the draft slot: a form is opened (resuming the
\* draft or not), filled in, saved as a draft, submitted and destroyed.
OpenFormStep == \E resume \in BOOLEAN : openForm(resume)

EditFormStep ==
  \E type \in Types, amount \in Amounts, date \in {IsoDate(1), IsoDate(2)} :
    editForm(type, amount, date)

FormNext ==
  \/ loadAllData
  \/ loadResolved
  \/ SelectAccountStep
  \/ OpenFormStep
  \/ EditFormStep
  \/ formSaveDraft
  \/ onSubmit
  \/ ngOnDestroy
  \/ clearDraft

FormSpec == Init /\ [][FormNext]_vars

\* ------------------------------------------------------------ SelectionSpec
\* Customers and accounts are selected and records are created; no account
\* is ever deselected by hand (selectAccount is called with an account id,
\* of any customer), so that an account selection is only ever dropped by
\* selectCustomer.
SelectAnAccountStep == \E a \in AccountIds : selectAccount(a)

SelectionNext ==
  \/ loadAllData
  \/ loadResolved
  \/ SelectCustomerStep
  \/ SelectAnAccountStep
  \/ CreateStep

SelectionSpec == Init /\ [][SelectionNext]_vars

\* ------------------------------------------------------------ AnalyticsSpec
\* The analytics over loaded ledgers: the data set holds one of the base
\* ledgers followed by up to MaxLedger further records; the customer and the
\* account are selected, the dashboard reads the analytics, and the clock
\* runs from 2026-01-31 into February.
Day(year, month, dayOfMonth) ==
  FirstDays[12 * year + month - September2025 + 1] + dayOfMonth - 1

Debit(accountId, amount, day, status) ==
  Txn(0, accountId, "debit", "payment", amount,
      (CHOOSE a \in SeedAccounts : a.id = accountId).currency, IsoDate(day), status)

\* four debits of 100 in January and one of 400 in December
FourSmallOneLarge ==
  [i \in 1..4 |-> Debit("a1", 100, Day(2026, 0, 10), "completed")]
  \o <<Debit("a1", 400, Day(2025, 11, 15), "completed")>>

\* debits of 100, 200 and 300 in three months
ThreeRising ==
  << Debit("a1", 100, Day(2026, 0, 10), "completed"),
     Debit("a1", 200, Day(2025, 11, 15), "completed"),
     Debit("a1", 300, Day(2025, 10, 15), "completed") >>

\* records of both accounts of c1 and of c2's account, completed and
\* scheduled, debits and a credit
TwoCustomers ==
  << Debit("a1", 50, Day(2026, 0, 10), "completed"),
     Debit("a2", 200, Day(2025, 11, 15), "completed"),
     Debit("a3", 100, Day(2025, 11, 15), "completed"),
     Debit("a1", 500, Day(2026, 1, 1), "scheduled"),
     Txn(0, "a1", "credit", "salary", 700, "EGP", IsoDate(Day(2026, 0, 10)), "completed") >>

\* the data sets: a base ledger followed by up to MaxLedger further records,
\* numbered so that the records carry distinct identities
AnalyticsLedgers ==
  LET \* records of both accounts of c1 and of c2's account, dated in and
      \* around the window of three months, on the first and on later days
      FurtherRecords ==
        { Debit("a1", 50, Day(2026, 0, 10), "completed"),
          Debit("a1", 400, Day(2026, 0, 1), "completed"),
          Debit("a2", 200, Day(2025, 11, 15), "completed"),
          Debit("a1", 300, Day(2025, 10, 1), "completed"),
          Debit("a1", 100, Day(2025, 9, 31), "completed"),
          Debit("a1", 500, Day(2026, 1, 1), "scheduled"),
          Debit("a3", 100, Day(2025, 11, 15), "completed"),
          Txn(0, "a1", "credit", "salary", 700, "EGP", IsoDate(Day(2026, 0, 10)), "completed") }
  IN
  { [i \in DOMAIN (base \o further) |-> [(base \o further)[i] EXCEPT !.id = i]] :
      base \in {<<>>, FourSmallOneLarge, ThreeRising, TwoCustomers},
      further \in UNION {[1..n -> FurtherRecords] : n \in 0..MaxLedger} }

AnalyticsInit ==
  /\ transactions \in AnalyticsLedgers
  /\ accounts = SeedAccounts
  /\ isLoading = FALSE
  /\ pendingLoads = 0
  /\ isLoaded = TRUE
  /\ selectedCustomerId \in {NoId} \cup CustomerIds
  /\ selectedAccountId = NoId
  /\ lastTransaction = NoTransaction
  /\ canUndo = FALSE
  /\ localDraft = NoDraft
  /\ hasDraft = FALSE
  /\ today = Day(2026, 0, 31)
  /\ todayDebitTotalMemo = Dirty
  /\ todayTransactionCountMemo = Dirty
  /\ lastOp = NoResult
  /\ form = NoForm
  /\ spendingTrendMemo = DirtyTrend
  /\ timezone \in {"behind", "UTC"}
  /\ SignedOut
  /\ transactionsRoutes = TRANSACTIONS_ROUTES

AnalyticsClockStep == dayPassesUntil(Day(2026, 0, 31) + MaxDay - 1)

AnalyticsNext ==
  \/ SelectCustomerStep
  \/ SelectAccountStep
  \/ readAnalytics
  \/ AnalyticsClockStep

AnalyticsSpec == AnalyticsInit /\ [][AnalyticsNext]_vars

\* -------------------------------------------------------------- SessionSpec
\* Signing in and out, activity, the inactivity timer and navigation, with
\* the application built with either TRANSACTIONS_ROUTES table.
SessionInit ==
  /\ transactions = <<>>
  /\ accounts = {}
  /\ isLoading = FALSE
  /\ pendingLoads = 0
  /\ isLoaded = FALSE
  /\ selectedCustomerId = NoId
  /\ selectedAccountId = NoId
  /\ lastTransaction = NoTransaction
  /\ canUndo = FALSE
  /\ localDraft = NoDraft
  /\ hasDraft = FALSE
  /\ today = 1
  /\ todayDebitTotalMemo = Dirty
  /\ todayTransactionCountMemo = Dirty
  /\ lastOp = NoResult
  /\ form = NoForm
  /\ spendingTrendMemo = DirtyTrend
  /\ timezone = "UTC"
  /\ SignedOut
  /\ transactionsRoutes \in {TRANSACTIONS_ROUTES, TRANSACTIONS_ROUTES_WithRoleGuard}

LoginStep ==
  \E username \in {"admin", "teller", "viewer", "guest"},
     password \in {"admin123", "teller123", "viewer123"} :
    login(username, password)

NavigateStep ==
  \E target \in {"/auth/login", "/customers", "/transactions",
                 "/transactions/create", "/analytics"} :
    navigate(target)

SessionNext ==
  \/ LoginStep
  \/ logout
  \/ handleUserActivity
  \/ resetInactivityTimer
  \/ timePasses
  \/ handleInactivityTimeout
  \/ NavigateStep
  \/ reload

SessionSpec == SessionInit /\ [][SessionNext]_vars

\* ------------------------------------------------------------------ LoadSpec
\* Loading and reloading the data set, in any interleaving with the
\* resolution of the requests, account selection, creation and undo.
LoadNext ==
  \/ loadAllData
  \/ reloadAllData
  \/ loadResolved
  \/ loadRejected
  \/ SelectAccountStep
  \/ CreateStep
  \/ undoLastTransaction

LoadSpec == Init /\ [][LoadNext]_vars

\* ------------------------------------------------------------- TimeOfDaySpec
\* Records whose date carries a time of day: they are created, matured and
\* counted while the clock runs.
CreateAtTimeStep ==
  \E type \in Types, date \in {IsoDate(1), IsoDateTime(1), IsoDateTime(2)} :
    /\ createTransactionWithin(type, CategoryFor(type), 500, date, MaxCreated)
    /\ UNCHANGED form

TimeOfDayNext ==
  \/ loadAllData
  \/ loadResolved
  \/ SelectAccountStep
  \/ CreateAtTimeStep
  \/ processScheduledTransactions
  \/ dayPasses

TimeOfDaySpec == Init /\ [][TimeOfDayNext]_vars

\* ------------------------------------------------------------------ UndoSpec
\* The undo slot over creations, undos, maturations, clearUndoState and
\* changes of the selected customer and account.
UndoNext ==
  \/ loadAllData
  \/ loadResolved
  \/ SelectCustomerStep
  \/ SelectAccountStep
  \/ SubmitStep
  \/ undoLastTransaction
  \/ processScheduledTransactions
  \/ ClearUndoStateStep
  \/ dayPasses

UndoSpec == Init /\ [][UndoNext]_vars

\* ----------------------------------------------------------------- DailySpec
\* One calendar day on a loaded ledger in which a1 has spent 19000, 19500 or
\* 20000 of the day's debit limit and a2 all of it: debits and credits of 500
\* or 1000 dated today or tomorrow are created and undone while the selected
\* account changes.
DailyInit ==
  /\ transactions \in
       { << Txn(1, "a1", "debit", "fees", spent - 500, "EGP", IsoDate(1), "completed"),
            Txn(2, "a1", "debit", "fees", 500, "EGP", IsoDate(1), "completed"),
            Txn(3, "a2", "debit", "fees", DAILY_DEBIT_LIMIT, "USD", IsoDate(1), "completed") >>
         : spent \in {19000, 19500, 20000} }
  /\ accounts = SeedAccounts
  /\ isLoading = FALSE
  /\ pendingLoads = 0
  /\ isLoaded = TRUE
  /\ selectedCustomerId \in CustomerIds
  /\ selectedAccountId = NoId
  /\ lastTransaction = NoTransaction
  /\ canUndo = FALSE
  /\ localDraft = NoDraft
  /\ hasDraft = FALSE
  /\ today = 1
  /\ todayDebitTotalMemo = Dirty
  /\ todayTransactionCountMemo = Dirty
  /\ lastOp = NoResult
  /\ form = NoForm
  /\ spendingTrendMemo = DirtyTrend
  /\ timezone = "UTC"
  /\ SignedOut
  /\ transactionsRoutes = TRANSACTIONS_ROUTES

\* the ledger holds up to MaxInSuccession records beyond the three loaded
DailyStep ==
  \E type \in Types, amount \in {500, 1000}, date \in {IsoDate(1), IsoDate(2)} :
    /\ createTransactionWithin(type, CategoryFor(type), amount, date,
                               3 + MaxInSuccession - Len(SeedTransactions))
    /\ UNCHANGED form

DailyNext ==
  \/ SelectAccountStep
  \/ DailyStep
  \/ undoLastTransaction

DailySpec == DailyInit /\ [][DailyNext]_vars

\* =========================================================================
\* Claims
\* =========================================================================
Ledger == {transactions[i] : i \in DOMAIN transactions}

RECURSIVE Total(_)
Total(records) ==
  IF records = {} THEN 0
  ELSE LET r == CHOOSE x \in records : TRUE IN r.amount + Total(records \ {r})

Completed(accountId, type) ==
  {t \in Ledger : t.accountId = accountId /\ t.status = "completed" /\ t.type = type}

Created == {t \in Ledger : t.id > Len(SeedTransactions)}

LastCreated == CHOOSE t \in Ledger : t.id = lastOp.txnId

CreateSucceeded ==
  lastOp.op = "createTransaction" /\ lastOp.ok /\ \E t \in Ledger : t.id = lastOp.txnId

CreateFailed == lastOp.op = "createTransaction" /\ ~lastOp.ok

\* C1: whenever an account is selected, the derived balance is its opening
\* balance plus its completed credits minus its completed debits in the
\* ledger; scheduled records and other accounts' records count for nothing.
C1_BalanceIsDerived ==
  selectedAccount # NoAccount =>
    accountBalance = selectedAccount.openingBalance
                     + Total(Completed(selectedAccount.id, "credit"))
                     - Total(Completed(selectedAccount.id, "debit"))

\* a1 is selected, a completed record of a1 was created, and the ledger still
\* holds a scheduled record and completed records of other accounts
C1_Witness ==
  /\ selectedAccountId = "a1"
  /\ \E t \in Created : t.accountId = "a1" /\ t.status = "completed"
  /\ \E t \in Ledger : t.status = "scheduled"
  /\ \E t \in Ledger : t.accountId # "a1" /\ t.status = "completed"

\* the selected account is one validateTransaction does not short-circuit on
Usable == selectedAccount # NoAccount /\ selectedAccount.status # "inactive"

Range(seq) == {seq[i] : i \in DOMAIN seq}

\* C2: a createTransaction whose validation reports an error returns
\* success=false with that non-empty error list and leaves the ledger, the
\* undo slot (lastTransaction, canUndo), the saved draft and hasDraft as
\* they were; a successful one reports no error.
C2_RejectionHasNoSideEffects ==
  [][lastOp'.op = "createTransaction" =>
       /\ lastOp'.ok <=> (lastOp'.errors = <<>>)
       /\ ~lastOp'.ok =>
            UNCHANGED <<transactions, lastTransaction, canUndo, localDraft, hasDraft>>
    ]_vars

\* a rejected create while a draft is saved and the ledger is loaded
C2_Witness ==
  /\ CreateFailed
  /\ hasDraft /\ localDraft # NoDraft
  /\ transactions # <<>>
  /\ Usable

\* C4: with no account selected validation yields exactly NO_ACCOUNT, with an
\* inactive account exactly ACCOUNT_INACTIVE, whatever the other inputs are,
\* and such a createTransaction fails and appends nothing.
C4_AccountShortCircuit ==
  [][(lastOp'.op = "createTransaction" /\ ~Usable) =>
       /\ ~lastOp'.ok
       /\ Codes(lastOp'.errors) =
            (IF selectedAccount = NoAccount
             THEN <<"NO_ACCOUNT">> ELSE <<"ACCOUNT_INACTIVE">>)
       /\ transactions' = transactions
    ]_vars

\* a create on the inactive account a3 was rejected with the single error
C4_Witness ==
  /\ CreateFailed
  /\ selectedAccountId = "a3"
  /\ Codes(lastOp.errors) = <<"ACCOUNT_INACTIVE">>

\* C5: on a frozen account ACCOUNT_FROZEN is reported for every debit and
\* for no credit, a credit gets exactly the errors of the other rules (so it
\* is accepted when they pass), and every record created on a frozen
\* account is a credit.
C5_FrozenBlocksDebitsOnly ==
  /\ (Usable /\ selectedAccount.status = "frozen") =>
       \A type \in Types, category \in Categories, amount \in Amounts, date \in DateInputs :
         LET errors == validateTransaction(amount, type, category, date, selectedAccount)
             others == amountErrors(amount) \o dateErrors(date, selectedAccount)
                       \o categoryErrors(type, category)
                       \o dailyLimitErrors(amount, type, date)
                       \o maxTransactionsErrors(date)
         IN /\ ("ACCOUNT_FROZEN" \in Range(Codes(errors))) <=> (type = "debit")
            /\ type = "debit" => errors # <<>>
            /\ type = "credit" => errors = others
  /\ \A t \in Created :
       (\E a \in accounts : a.id = t.accountId /\ a.status = "frozen") => t.type = "credit"

\* a credit was created on the frozen account a2
C5_Witness ==
  /\ CreateSucceeded
  /\ selectedAccountId = "a2"
  /\ LastCreated.accountId = "a2" /\ LastCreated.type = "credit"

\* the selected account's completed records dated on the current calendar day
TodayCompleted ==
  {t \in Ledger : /\ t.accountId = selectedAccountId
                  /\ t.status = "completed"
                  /\ DayOf(t.date) = today}

TodayDebits == {t \in TodayCompleted : t.type = "debit"}

RuleOrder ==
  <<"ACCOUNT_FROZEN", "INVALID_AMOUNT", "DATE_BEFORE_OPENING", "INVALID_CATEGORY",
    "DAILY_LIMIT_EXCEEDED", "MAX_TRANSACTIONS_EXCEEDED">>

\* the condition of each accumulating rule, on the ledger as it stands
RuleHolds(code, amount, type, category, date) ==
  CASE code = "ACCOUNT_FROZEN" ->
         selectedAccount.status = "frozen" /\ type = "debit"
    [] code = "INVALID_AMOUNT" -> amount <= 0
    [] code = "DATE_BEFORE_OPENING" -> DayOf(date) < DayOf(selectedAccount.openingDate)
    [] code = "INVALID_CATEGORY" ->
         \/ type = "credit" /\ category \in {"fees", "withdrawal", "payment"}
         \/ type = "debit" /\ category \in {"income", "refund", "deposit"}
    [] code = "DAILY_LIMIT_EXCEEDED" ->
         type = "debit" /\ DayOf(date) = today /\ Total(TodayDebits) + amount > 20000
    [] code = "MAX_TRANSACTIONS_EXCEEDED" ->
         DayOf(date) = today /\ Cardinality(TodayCompleted) >= 10

\* C3: for a selected account that is neither null nor inactive, validation
\* reports exactly the rules whose condition holds, each once, in the order
\* ACCOUNT_FROZEN, INVALID_AMOUNT, DATE_BEFORE_OPENING, INVALID_CATEGORY,
\* DAILY_LIMIT_EXCEEDED, MAX_TRANSACTIONS_EXCEEDED.
C3_EveryFailingRuleInOrder ==
  Usable =>
    \A type \in Types, category \in Categories, amount \in Amounts, date \in DateInputs :
      Codes(validateTransaction(amount, type, category, date, selectedAccount))
        = SelectSeq(RuleOrder, LAMBDA code : RuleHolds(code, amount, type, category, date))

\* C6: for a debit dated today DAILY_LIMIT_EXCEEDED is reported exactly when
\* the selected account's completed debits dated today plus the amount exceed
\* 20000, and the error carries max(0, 20000 - that total) as the remainder.
C6_DailyLimitOnTodaysDebits ==
  Usable =>
    \A category \in Categories, amount \in Amounts :
      LET errors == validateTransaction(amount, "debit", category, IsoDate(today),
                                        selectedAccount)
          limit == SelectSeq(errors, LAMBDA e : e.code = "DAILY_LIMIT_EXCEEDED")
      IN /\ (limit # <<>>) <=> (Total(TodayDebits) + amount > 20000)
         /\ limit # <<>> => limit[1].remaining = Max(0, 20000 - Total(TodayDebits))

\* C7: for a transaction dated today, of either direction,
\* MAX_TRANSACTIONS_EXCEEDED is reported exactly when the selected account
\* has 10 or more completed records dated today, whether or not
\* DAILY_LIMIT_EXCEEDED is reported too.
C7_CapOnTodaysCompleted ==
  Usable =>
    \A type \in Types, category \in Categories, amount \in Amounts :
      LET codes == Range(Codes(validateTransaction(amount, type, category,
                                                   IsoDate(today), selectedAccount)))
      IN ("MAX_TRANSACTIONS_EXCEEDED" \in codes) <=> (Cardinality(TodayCompleted) >= 10)

\* C8: a transaction dated on another day than today, past or future, never
\* gets DAILY_LIMIT_EXCEEDED or MAX_TRANSACTIONS_EXCEEDED.
C8_DailyRulesOnlyForToday ==
  Usable =>
    \A type \in Types, category \in Categories, amount \in Amounts, date \in DateInputs :
      DayOf(date) # today =>
        Range(Codes(validateTransaction(amount, type, category, date, selectedAccount)))
          \cap {"DAILY_LIMIT_EXCEEDED", "MAX_TRANSACTIONS_EXCEEDED"} = {}

\* a debit dated on an earlier day was accepted on a1 although that day
\* already held ten completed records and debits of 20000
C8_Witness ==
  /\ CreateSucceeded
  /\ selectedAccountId = "a1"
  /\ LastCreated.type = "debit" /\ DayOf(LastCreated.date) < today
  /\ Total({t \in Completed("a1", "debit") : t.date = LastCreated.date}) > 20000
  /\ Cardinality({t \in Ledger : /\ t.accountId = "a1" /\ t.status = "completed"
                                 /\ t.date = LastCreated.date}) > 10

\* C9: right after a successful createTransaction the new record is
\* scheduled exactly when its date is later than today and completed
\* otherwise; it is never draft or reversed.
C9_StatusFollowsDate ==
  CreateSucceeded =>
    /\ LastCreated.status \in {"scheduled", "completed"}
    /\ (LastCreated.status = "scheduled") <=> (DayOf(LastCreated.date) > today)
    /\ (LastCreated.status = "completed") <=> (DayOf(LastCreated.date) <= today)

\* a record dated today was created as completed
C9_Witness ==
  /\ CreateSucceeded
  /\ LastCreated.date = IsoDate(today)
  /\ LastCreated.status = "completed"

C11_OnlyScheduledToCompleted ==
  [][/\ \A t \in Ledger : \A u \in Ledger' :
          t.id = u.id =>
            \/ u.status = t.status
            \/ t.status = "scheduled" /\ u.status = "completed"
     /\ \A u \in Ledger' : u.status \in {"scheduled", "completed"}
    ]_vars

\* the loaded scheduled record 11 of a1 has been matured
C11_Witness ==
  /\ lastOp.op = "processScheduledTransactions" /\ lastOp.count > 0
  /\ \E t \in Ledger : t.id = 11 /\ t.status = "completed"

\* C12: a successful createTransaction, completed or scheduled, discards the
\* previous undo slot: right after it nothing but the record just created
\* is undoable.
C12_CreateDiscardsUndoSlot ==
  CreateSucceeded => (canUndo => lastTransaction.id = lastOp.txnId)

\* C13: undo is one level deep: an undo right after the creation of a
\* completed record B succeeds and removes B and nothing else, and an undo
\* right after a successful undo returns false and removes nothing.
C13_UndoIsOneLevel ==
  [][/\ (/\ CreateSucceeded /\ LastCreated.status = "completed"
         /\ lastOp'.op = "undoLastTransaction") =>
          /\ lastOp'.ok
          /\ lastOp'.txnId = lastOp.txnId
          /\ Ledger' = Ledger \ {LastCreated}
     /\ (lastOp.op = "undoLastTransaction" /\ lastOp.ok) =>
          /\ lastTransaction = NoTransaction \/ ~canUndo
          /\ lastOp'.op = "undoLastTransaction" =>
               /\ ~lastOp'.ok
               /\ transactions' = transactions
    ]_vars

\* B was undone and an earlier created completed record A is still there
C13_Witness ==
  /\ lastOp.op = "undoLastTransaction" /\ lastOp.ok
  /\ \E a \in Created : a.status = "completed" /\ a.id < lastOp.txnId

\* C14: undoLastTransaction fails exactly when no undoable record is
\* recorded and then changes neither ledger, undo slot nor draft; otherwise
\* it removes exactly the recorded record, keeps every other record and their
\* order, clears the slot and returns true.
C14_UndoFrame ==
  [][lastOp'.op = "undoLastTransaction" =>
       /\ lastOp'.ok <=> (lastTransaction # NoTransaction /\ canUndo)
       /\ ~lastOp'.ok =>
            UNCHANGED <<transactions, lastTransaction, canUndo, localDraft, hasDraft>>
       /\ lastOp'.ok =>
            /\ lastTransaction \in Ledger
            /\ transactions' = SelectSeq(transactions, LAMBDA t : t # lastTransaction)
            /\ Len(transactions') = Len(transactions) - 1
            /\ lastTransaction' = NoTransaction /\ ~canUndo'
    ]_vars

\* an undo took the only created record out of the loaded ledger
C14_Witness ==
  /\ lastOp.op = "undoLastTransaction" /\ lastOp.ok
  /\ ~canUndo /\ lastTransaction = NoTransaction
  /\ Len(transactions) = Len(SeedTransactions)
  /\ selectedAccountId = "a1"

\* C15: a successful createTransaction of a completed record immediately
\* followed by undoLastTransaction leaves the ledger, the balance, today's
\* debit total, the remaining daily allowance and today's transaction count
\* as a caller saw them just before the creation.
C15_CreateUndoRoundTrip ==
  (/\ lastOp.op = "undoLastTransaction" /\ lastOp.ok
   /\ "seen" \in DOMAIN lastOp) =>
     Views = lastOp.seen

\* the selected account's scheduled records whose date is today or earlier
Due ==
  {t \in Ledger : /\ t.accountId = selectedAccountId
                  /\ t.status = "scheduled"
                  /\ DayOf(t.date) <= today}

\* C16: processScheduledTransactions completes exactly the selected
\* account's scheduled records dated today or earlier and returns their
\* number; every other record, the number and order of the records, the undo
\* slot and the draft stay as they are; and no step completes a scheduled
\* record before its date has arrived.
C16_ProcessFrame ==
  [][/\ lastOp'.op = "processScheduledTransactions" =>
          /\ lastOp'.count = Cardinality(Due)
          /\ Len(transactions') = Len(transactions)
          /\ \A i \in DOMAIN transactions :
               transactions'[i] = (IF transactions[i] \in Due
                                   THEN [transactions[i] EXCEPT !.status = "completed"]
                                   ELSE transactions[i])
          /\ UNCHANGED <<lastTransaction, canUndo, localDraft, hasDraft>>
     /\ \A t \in Ledger : \A u \in Ledger' :
          (t.id = u.id /\ t.status = "scheduled" /\ u.status = "completed") =>
            DayOf(t.date) <= today
    ]_vars

\* a1's due records were completed while the due record 12 of a2 stayed
\* scheduled
C16_Witness ==
  /\ lastOp.op = "processScheduledTransactions" /\ lastOp.count > 0
  /\ selectedAccountId = "a1"
  /\ \E t \in Ledger : t.id = 12 /\ t.status = "scheduled" /\ DayOf(t.date) <= today

\* C17: right after a processScheduledTransactions (same day, same selected
\* account, nothing created in between) a second call finds nothing due: it
\* returns 0 and its ledger is the ledger the first call left.
C17_ProcessIsIdempotent ==
  lastOp.op = "processScheduledTransactions" =>
    /\ lastOp.count >= 0
    /\ Len(dueScheduled) = 0
    /\ completeAll(transactions, dueScheduled) = transactions

\* a call returned 0 on the day on which record 11 of a1 was matured
C17_Witness ==
  /\ lastOp.op = "processScheduledTransactions" /\ lastOp.count = 0
  /\ selectedAccountId = "a1"
  /\ \E t \in Ledger : t.id = 11 /\ t.status = "completed" /\ DayOf(t.date) = today

\* C18: maturation does not validate: a processScheduledTransactions step
\* completes every due scheduled record of the selected account, also when
\* the day's completed debits then exceed the daily limit of 20000.
C18_MaturationDoesNotValidate ==
  [][lastOp'.op = "processScheduledTransactions" =>
       \A t \in Due : [t EXCEPT !.status = "completed"] \in Ledger'
    ]_vars

\* after a maturation today's completed debits of a1 exceed 20000
C18_Witness ==
  /\ lastOp.op = "processScheduledTransactions" /\ lastOp.count > 0
  /\ selectedAccountId = "a1"
  /\ Total(TodayDebits) > 20000

\* C19: a future-dated record is created scheduled and leaves the balance as
\* it was; scheduled records count neither in the balance nor in the
\* computation of today's debit total and today's transaction count; after
\* processScheduledTransactions no due record of the selected account is
\* still scheduled, and completed records count in the balance.
C19_ScheduledCountsForNothing ==
  /\ (CreateSucceeded /\ DayOf(LastCreated.date) > today) =>
       /\ LastCreated.status = "scheduled"
       /\ accountBalance = lastOp.seen.accountBalance
  /\ Usable =>
       /\ accountBalance = selectedAccount.openingBalance
                           + Total(Completed(selectedAccountId, "credit"))
                           - Total(Completed(selectedAccountId, "debit"))
       /\ todayDebitTotalCompute = Total(TodayDebits)
       /\ todayTransactionCountCompute = Cardinality(TodayCompleted)
  /\ lastOp.op = "processScheduledTransactions" => Due = {}

\* a2's loaded scheduled record and a record created for a2 were matured
\* together
C19_Witness ==
  /\ lastOp.op = "processScheduledTransactions" /\ lastOp.count = 2
  /\ selectedAccountId = "a2"
  /\ \E t \in Created : t.accountId = "a2" /\ t.status = "completed"

\* C20: after saveDraft(d) getDraft returns d's fields with the save stamp
\* of that call, whatever was stored before (one slot, the later save wins);
\* after clearDraft getDraft returns null.
C20_DraftRoundTrip ==
  /\ lastOp.op = "saveDraft" =>
       getDraft = [accountId |-> lastOp.draft.accountId, type |-> lastOp.draft.type,
                   amount |-> lastOp.draft.amount, savedAt |-> today]
  /\ lastOp.op = "clearDraft" => getDraft = NoDraft

\* on day 2 the draft saved with no account selected is read back, with its
\* undefined accountId and the stamp of day 2
C20_Witness ==
  /\ lastOp.op = "saveDraft"
  /\ getDraft # NoDraft
  /\ getDraft.accountId = NoId /\ getDraft.type = "credit"
  /\ getDraft.savedAt = 2
  /\ hasDraft

\* C21: in every state reached by service start-up, saveDraft, clearDraft and
\* createTransaction the has-draft flag tells whether a draft is stored:
\* hasDraft is true exactly when getDraft returns a draft.
C21_HasDraftInSync == hasDraft <=> (getDraft # NoDraft)

\* a draft was saved again after a successful creation had cleared the slot
C21_Witness ==
  /\ lastOp.op = "saveDraft"
  /\ hasDraft /\ getDraft # NoDraft
  /\ Created # {}

\* C22: right after a successful createTransaction, completed or scheduled,
\* getDraft returns null and hasDraft is false, and the destruction of the
\* form that made the submission writes no draft.
C22_SuccessClearsDraft ==
  [][/\ (lastOp'.op = "createTransaction" /\ lastOp'.ok) =>
          (getDraft' = NoDraft /\ ~hasDraft')
     /\ (form.open /\ ~form'.open /\ form.isSubmitting) =>
          UNCHANGED <<localDraft, hasDraft>>
    ]_vars

\* the form that scheduled a record was dirty with an amount filled in when
\* it was destroyed, and no draft is stored
C22_Witness ==
  /\ lastOp.op = "ngOnDestroy"
  /\ lastOp.form.isSubmitting /\ lastOp.form.dirty /\ lastOp.form.amount > 0
  /\ \E t \in Created : t.status = "scheduled"
  /\ getDraft = NoDraft /\ ~hasDraft

\* the completed records of one direction on the accounts of the selected
\* customer
CustomerCompleted(type) ==
  {t \in Ledger : /\ t.status = "completed"
                  /\ t.type = type
                  /\ \E a \in accounts : a.id = t.accountId /\ a.customerId = selectedCustomerId}

AnalyticsRead == lastOp.op = "analyticsData"

\* C23: totalSpending is the sum of the completed debits and totalCredits the
\* sum of the completed credits on all accounts of the selected customer,
\* whichever account is selected; scheduled records and other customers'
\* records count for nothing, and both are 0 with no customer selected.
C23_TotalsOverCustomer ==
  /\ totalSpending = Total(CustomerCompleted("debit"))
  /\ totalCredits = Total(CustomerCompleted("credit"))
  /\ selectedCustomerId = NoId => (totalSpending = 0 /\ totalCredits = 0)
  /\ AnalyticsRead =>
       /\ lastOp.read.totalSpending = Total(CustomerCompleted("debit"))
       /\ lastOp.read.totalCredits = Total(CustomerCompleted("credit"))

\* with a1 selected the dashboard read the totals of c1, which include a
\* debit of a2, while the ledger holds a scheduled debit of a1 and a debit of
\* c2's account
C23_Witness ==
  /\ AnalyticsRead
  /\ selectedCustomerId = "c1" /\ selectedAccountId = "a1"
  /\ lastOp.read.totalSpending = 250 /\ lastOp.read.totalCredits = 700
  /\ \E t \in Ledger : t.accountId = "a2" /\ t.type = "debit" /\ t.status = "completed"
  /\ \E t \in Ledger : t.accountId = "a1" /\ t.type = "debit" /\ t.status = "scheduled"
  /\ \E t \in Ledger : t.accountId = "a3" /\ t.type = "debit" /\ t.status = "completed"

\* C24: with fewer than 3 completed debits of the customer, or an average
\* spending of 0, abnormalSpending is not detected with an empty list and an
\* empty message; otherwise it lists exactly the completed debits whose
\* amount is strictly greater than 1.5 times averageSpending, detected with a
\* message bearing their number when there are any and not detected with the
\* neutral message when there are none.
C24_AbnormalSpendingOutcomes ==
  LET debits == CustomerCompleted("debit")
      flagged == {t \in debits : 2 * t.amount > 3 * averageSpending}
  IN IF Cardinality(debits) < 3 \/ averageSpending = 0
     THEN abnormalSpending =
            [detected |-> FALSE, transactions |-> <<>>, message |-> Message("empty", 0)]
     ELSE /\ Range(abnormalSpending.transactions) = flagged
          /\ Len(abnormalSpending.transactions) = Cardinality(flagged)
          /\ abnormalSpending.detected <=> (flagged # {})
          /\ abnormalSpending.message =
               (IF flagged = {} THEN Message("neutral", 0)
                ELSE Message("count", Cardinality(flagged)))

\* four debits of 100 and one of 400: the dashboard read the 400 as the one
\* abnormal debit
C24_Witness ==
  /\ AnalyticsRead
  /\ selectedCustomerId = "c1"
  /\ Len(transactions) = 5
  /\ Cardinality({t \in CustomerCompleted("debit") : t.amount = 100}) = 4
  /\ lastOp.read.abnormalSpending.detected
  /\ lastOp.read.abnormalSpending.message = Message("count", 1)
  /\ \A t \in Range(lastOp.read.abnormalSpending.transactions) : t.amount = 400

\* C25 as stated: averageSpending is the arithmetic mean of the customer's
\* completed debits, their sum divided by their number, and 0 when there
\* are none.
C25_AverageIsTheMean ==
  LET debits == CustomerCompleted("debit") IN
  IF debits = {} THEN averageSpending = 0
  ELSE averageSpending * Cardinality(debits) = Total(debits)

\* C25 as amended: averageSpending is the arithmetic mean of the customer's
\* completed debits rounded to the nearest whole number, a half rounded up,
\* and 0 when there are none.
C25_AverageIsTheRoundedMean ==
  LET debits == CustomerCompleted("debit")
      n == Cardinality(debits)
  IN IF debits = {} THEN averageSpending = 0
     ELSE /\ 2 * n * averageSpending - n <= 2 * Total(debits)
          /\ 2 * Total(debits) < 2 * n * averageSpending + n

\* four debits that sum to 650: the mean 162.5 was read as 163
C25_Witness ==
  /\ AnalyticsRead
  /\ Cardinality(CustomerCompleted("debit")) = 4
  /\ Total(CustomerCompleted("debit")) = 650
  /\ lastOp.read.averageSpending = 163

\* C26: monthOverMonthChange, taken from the last two entries of the spending
\* trend, reports change = current total - previous total, the direction up
\* when the current total is greater, down when it is smaller and stable
\* when they are equal, and the percentage 0 when the previous total is 0.
C26_MonthOverMonth ==
  AnalyticsRead =>
    LET current == lastOp.read.spendingTrend[3].total
        previous == lastOp.read.spendingTrend[2].total
        result == lastOp.read.monthOverMonthChange
    IN /\ result.change = current - previous
       /\ result.direction = (IF current > previous THEN "up"
                              ELSE IF current < previous THEN "down" ELSE "stable")
       /\ previous = 0 => result.percentage = 0

\* the calendar month a date is written in
MonthOfDate(date) == MonthOfDay(DayOf(date))

\* C27: spendingTrend has exactly 3 entries, for the current calendar month
\* and the two months before it, oldest first, also across a year boundary;
\* the total and the count of each entry are those of the customer's
\* completed debits dated in that month of that year.
C27_TrendOfThreeMonths ==
  AnalyticsRead =>
    LET trend == lastOp.read.spendingTrend IN
    /\ Len(trend) = 3
    /\ \A k \in 1..3 :
         LET m == MonthOfDay(today) - (3 - k)
             dated == {t \in CustomerCompleted("debit") : MonthOfDate(t.date) = m}
         IN /\ trend[k].year = m \div 12
            /\ trend[k].month = m % 12
            /\ trend[k].total = Total(dated)
            /\ trend[k].count = Cardinality(dated)

\* C30: a step that changes the selected customer leaves no account
\* selected, and a createTransaction with no account selected fails with
\* NO_ACCOUNT; the selected account is always one of the current customer's
\* accounts; with no change of customer (selectCustomer called with the
\* current customer included) a selected account is not dropped.
C30_CustomerChangeResetsAccount ==
  /\ [](selectedAccountId # NoId =>
          \E a \in accounts : a.id = selectedAccountId /\ a.customerId = selectedCustomerId)
  /\ []((lastOp.op = "createTransaction" /\ selectedAccountId = NoId) =>
          (~lastOp.ok /\ Codes(lastOp.errors) = <<"NO_ACCOUNT">>))
  /\ [][/\ (selectedCustomerId' # selectedCustomerId) => (selectedAccountId' = NoId)
        /\ (selectedCustomerId' = selectedCustomerId /\ selectedAccountId # NoId)
             => (selectedAccountId' # NoId)
       ]_vars

\* a record was created on a1 of c1, then c2 was selected and the next
\* create was rejected for want of an account
C30_Witness ==
  /\ \E t \in Created : t.accountId = "a1"
  /\ selectedCustomerId = "c2"
  /\ selectedAccountId = NoId
  /\ CreateFailed
  /\ Codes(lastOp.errors) = <<"NO_ACCOUNT">>

\* C28: the route /transactions/create is only ever active for an
\* authenticated user whose role is admin or teller, never for a viewer,
\* however the URL was reached.
C28_ViewerNeverCreates ==
  url = "/transactions/create" => (isAuthenticated /\ userRole \in {"admin", "teller"})

\* C29: while a user is authenticated the inactivity timer is pending and
\* due exactly when the full timeout has passed since the last activity
\* event (or since signing in), so every activity event restarts the full
\* timeout; when the timer fires the user is logged out (not authenticated,
\* no current user, no token in session storage, back on the login page);
\* and while nobody is authenticated no timer is pending.
C29_InactivityLogout ==
  /\ [](isAuthenticated =>
          /\ inactivityTimer # NoTimer
          /\ inactivityTimer = INACTIVITY_TIMEOUT_MS - sinceActivity
          /\ sinceActivity <= INACTIVITY_TIMEOUT_MS)
  /\ [](~isAuthenticated =>
          (currentUser = NoUser /\ authToken = NoToken /\ inactivityTimer = NoTimer))
  /\ [][(isAuthenticated /\ lastOp'.op = "handleInactivityTimeout") =>
          /\ sinceActivity = INACTIVITY_TIMEOUT_MS
          /\ ~isAuthenticated'
          /\ currentUser' = NoUser
          /\ authToken' = NoToken
          /\ inactivityTimer' = NoTimer
          /\ url' = "/auth/login"
       ]_vars

\* the timer fired and logged the user out
C29_Witness ==
  /\ lastOp.op = "handleInactivityTimeout"
  /\ ~isAuthenticated
  /\ currentUser = NoUser
  /\ authToken = NoToken
  /\ inactivityTimer = NoTimer
  /\ url = "/auth/login"

\* C31: at most one load of the data set is in flight at a time, isLoading
\* tells whether one is, and none is in flight while the data is loaded; as
\* long as the data stays loaded the cached accounts are not replaced and the
\* cached transactions change only by createTransaction,
\* undoLastTransaction and processScheduledTransactions.
C31_LoadedOnce ==
  /\ [](/\ pendingLoads <= 1
        /\ isLoading <=> (pendingLoads = 1)
        /\ isLoaded => (pendingLoads = 0))
  /\ [][isLoaded =>
          /\ accounts' = accounts
          /\ (transactions' # transactions) =>
               (lastOp'.op \in {"createTransaction", "undoLastTransaction",
                                "processScheduledTransactions"})
       ]_vars

\* the data is loaded, a record has been created since, and a later call
\* that returns nothing (loadAllData among them) left no load in flight
C31_Witness ==
  /\ isLoaded
  /\ ~isLoading
  /\ pendingLoads = 0
  /\ Created # {}
  /\ lastOp = NoResult
  /\ accounts = SeedAccounts

\* C38: a record appended by createTransaction stays in the ledger until
\* undoLastTransaction removes it, whatever load resolves in between.
C38_CreatedStaysUntilUndone ==
  [][\A t \in Created :
       \/ \E i \in DOMAIN transactions' : transactions'[i].id = t.id
       \/ (lastOp'.op = "undoLastTransaction" /\ lastOp'.ok)
    ]_vars

\* C32: the totals rules 8 and 9 compare against are those of the calendar
\* day of the call: whenever an account is selected, the debit total the
\* validation reads is the total of the account's completed debits dated
\* today and the count it reads is the number of the account's completed
\* records dated today, also after the day has changed with no change of
\* the ledger or the selection.
C32_TotalsOfTheCurrentDay ==
  selectedAccount # NoAccount =>
    /\ todayDebitTotal = Total(TodayDebits)
    /\ todayTransactionCount = Cardinality(TodayCompleted)

\* the completed records of an account dated today
TodayCompletedOf(accountId) ==
  {t \in Ledger : t.accountId = accountId /\ t.status = "completed" /\ DayOf(t.date) = today}

\* C33: validateTransaction applies rules 8 and 9 to the account it is
\* given: for an active account and a debit dated today,
\* DAILY_LIMIT_EXCEEDED is reported exactly when that account's completed
\* debits dated today plus the amount exceed 20000 and
\* MAX_TRANSACTIONS_EXCEEDED exactly when that account has 10 or more
\* completed records dated today, whichever account is selected.
C33_RulesOfTheGivenAccount ==
  \A account \in accounts, amount \in Amounts \ {0} :
    account.status = "active" =>
      LET codes == Range(Codes(validateTransaction(amount, "debit", "fees",
                                                   IsoDate(today), account)))
          onTheDay == TodayCompletedOf(account.id)
      IN /\ ("DAILY_LIMIT_EXCEEDED" \in codes) <=>
              (Total({t \in onTheDay : t.type = "debit"}) + amount > 20000)
         /\ ("MAX_TRANSACTIONS_EXCEEDED" \in codes) <=> (Cardinality(onTheDay) >= 10)

\* C34: dates are compared by calendar day, whatever time of day a date
\* value carries: a record created with a date of the current day or an
\* earlier one is completed, validation gives a date of the current day the
\* same errors with or without a time of day, and after
\* processScheduledTransactions no record of the selected account whose
\* calendar day has come is still scheduled.
C34_CalendarDateOnly ==
  /\ CreateSucceeded =>
       (DayOf(LastCreated.date) <= today => LastCreated.status = "completed")
  /\ Usable =>
       \A type \in Types, amount \in Amounts :
         validateTransaction(amount, type, CategoryFor(type), IsoDateTime(today),
                             selectedAccount)
           = validateTransaction(amount, type, CategoryFor(type), IsoDate(today),
                                 selectedAccount)
  /\ lastOp.op = "processScheduledTransactions" =>
       \A t \in Ledger :
         (t.accountId = selectedAccountId /\ DayOf(t.date) <= today)
           => t.status # "scheduled"

\* C35: undoLastTransaction only ever removes a record of the account that
\* is selected when it is called, and the undo slot never holds a record of
\* another account than the selected one.
C35_UndoWithinSelectedAccount ==
  /\ [](canUndo => lastTransaction.accountId = selectedAccountId)
  /\ [][(lastOp'.op = "undoLastTransaction" /\ lastOp'.ok) =>
          lastTransaction.accountId = selectedAccountId]_vars

\* C36: canUndo is true exactly when lastTransaction holds a record, and
\* then that record is in the ledger with status completed.
C36_UndoSlotIsConsistent ==
  /\ canUndo <=> (lastTransaction # NoTransaction)
  /\ canUndo => (lastTransaction \in Ledger /\ lastTransaction.status = "completed")

\* the slot holds a completed record of the ledger while another account is
\* selected, a scheduled record has been created since and the records due
\* have been matured
C36_Witness ==
  /\ canUndo
  /\ lastTransaction \in Created
  /\ lastTransaction.status = "completed"
  /\ selectedAccountId # lastTransaction.accountId
  /\ lastOp.op = "processScheduledTransactions" /\ lastOp.count > 0

\* the completed debits of an account dated today
TodayDebitsOf(accountId) == {t \in TodayCompletedOf(accountId) : t.type = "debit"}

\* C37: within one calendar day, from a ledger in which no account's
\* completed debits dated today total more than 20000, no creation, undo or
\* account selection makes the completed debits dated today of any account
\* total more than 20000.
C37_DailyLimitIsNeverPassed ==
  \A a \in accounts : Total(TodayDebitsOf(a.id)) <= 20000

\* a1 reached 20000 by a debit created today and the next debit was
\* rejected with DAILY_LIMIT_EXCEEDED
C37_Witness ==
  /\ CreateFailed
  /\ "DAILY_LIMIT_EXCEEDED" \in Range(Codes(lastOp.errors))
  /\ selectedAccountId = "a1"
  /\ Total(TodayDebitsOf("a1")) = 20000
  /\ \E t \in TodayDebitsOf("a1") : t.id > 3

====
